---- MODULE Spec2Model ----
(***************************************************************************)
(* A model of the resolution and search engine of ferritin-common:         *)
(*   - the reverse path index of a Package Document (RustdocData),         *)
(*   - DocRef handles, their equality and discriminated_path,              *)
(*   - path resolution (Navigator::resolve_path),                          *)
(*   - package identities (CrateName),                                     *)
(*   - the search-index cache and the search fan-out (Navigator::search),  *)
(*   - the display loop of the search command (ferretin main),             *)
(*   - the document cache and the Sources (Navigator::load_crate).         *)
(*                                                                         *)
(* Strings that the code formats and parses are sequences of tokens: a     *)
(* name is one token, "::" and "@" are tokens of their own, so that        *)
(* format!/join and split/rfind are real conversions.  Package names that  *)
(* are compared character by character are sequences of characters.        *)
(* Option<T> is a sequence of length 0 (None) or 1 (Some).                 *)
(***************************************************************************)
EXTENDS Integers, Sequences, FiniteSets, TLC

VARIABLES
    \* ---- path resolution ----
    working_set,   \* Navigator's document cache: None or Some(loaded document)
    cur,           \* Option<DocRef>: the handle the last operation returned
    req,           \* Option<path string>: the path given to the last resolve_path
    origin,        \* which operation produced cur
    kept,          \* a (req, handle) pair kept from an earlier resolve_path
    disc,          \* discriminated_path(cur): "unset", or Option<path string>
    back,          \* resolve_path(disc): "unset", or Option<DocRef>
    path_panicked  \* an index lookup of a missing id aborted the operation

VARIABLES
    \* ---- package identities ----
    name_a,        \* a package identity
    name_b,        \* another package identity
    name_cmp,      \* the outcome of comparing and hashing the two
    name_map,      \* a HashMap keyed by package identity
    name_found,    \* the outcome of looking name_b up in name_map
    name_ord       \* the outcome of ordering the two: cmp and partial_cmp

VARIABLES
    \* ---- search ----
    search_indexes, \* Navigator's search-index cache
    calls,          \* the search calls: state, package list, outcome
    tasks,          \* per call, the parallel tasks of its fan-out
    attempts        \* how often SearchIndex::load_or_build ran, per name

VARIABLES
    \* ---- the search command (ferretin main) ----
    cli_input,        \* what each crate's index returns for the query
    cli_limit,        \* --limit
    cli_pc,           \* where the command is
    cli_next,         \* the next crate to collect, then the loop index i
    all_results,      \* the collected (crate, id, score) triples
    cumulative_score, \* score displayed so far
    prev_score,       \* score of the result displayed last
    visited           \* the results the display loop handled, shown or not

VARIABLES
    \* ---- loading documents (Navigator::load_crate) ----
    sources,       \* what the Sources can look up, and which loads fail
    documents,     \* Navigator's document cache, per canonical name
    loading,       \* the keys a caller is loading at the moment
    loaders,       \* the callers of load_crate: position, key, outcome
    load_count,    \* how often a caller went to the Sources, per key
    source_loads   \* how often Source::load ran, per Source and key

VARIABLES
    \* ---- one document: its reverse index and its item tree ----
    fn_doc,        \* the export a Source produced
    fn_index,      \* build_path_index on it: "unset", or the order and the map
    fn_find        \* find_by_path on it: "unset", or start, segments, outcome

VARIABLES
    \* ---- the interactive renderer (render_interactive) ----
    history,        \* Vec<HistoryEntry>
    history_index,  \* usize: the position of the entry on display
    show_help,      \* the help screen covers the display
    input_mode,     \* Normal, GoTo or Search
    mouse_enabled,  \* mouse events are handled
    clicked_position,           \* Option<Position>: a click not yet handled
    actions,                    \* the link areas of the last drawn document
    breadcrumb_clickable_areas, \* the history positions of the last drawn bar
    loop_pc,        \* where the event loop is: draw, click, event, quit, panicked
    last_event      \* not state of the code: what the last handler did to the history

path_vars == <<working_set, cur, req, origin, kept, disc, back, path_panicked>>
name_vars == <<name_a, name_b, name_cmp, name_map, name_found, name_ord>>
search_vars == <<search_indexes, calls, tasks, attempts>>

cli_vars == <<cli_input, cli_limit, cli_pc, cli_next, all_results,
              cumulative_score, prev_score, visited>>

load_vars == <<sources, documents, loading, loaders, load_count, source_loads>>
doc_vars == <<fn_doc, fn_index, fn_find>>

tui_vars == <<history, history_index, show_help, input_mode, mouse_enabled,
              clicked_position, actions, breadcrumb_clickable_areas, loop_pc,
              last_event>>

vars == <<path_vars, name_vars, search_vars, cli_vars, load_vars, doc_vars,
          tui_vars>>

not_path_vars == <<name_vars, search_vars, cli_vars, load_vars, doc_vars, tui_vars>>
not_name_vars == <<path_vars, search_vars, cli_vars, load_vars, doc_vars, tui_vars>>
not_search_vars == <<path_vars, name_vars, cli_vars, load_vars, doc_vars, tui_vars>>
not_cli_vars == <<path_vars, name_vars, search_vars, load_vars, doc_vars, tui_vars>>
not_load_vars == <<path_vars, name_vars, search_vars, cli_vars, doc_vars, tui_vars>>
not_doc_vars == <<path_vars, name_vars, search_vars, cli_vars, load_vars, tui_vars>>
not_tui_vars == <<path_vars, name_vars, search_vars, cli_vars, load_vars, doc_vars>>

None == <<>>
Some(x) == <<x>>
IsSome(o) == Len(o) = 1
Unwrap(o) == o[1]

Sep == "::"
At == "@"

\* A result that is not there yet, and one that is.
Unset == [set |-> FALSE, val |-> None]
SetTo(v) == [set |-> TRUE, val |-> v]

Min(S) == CHOOSE x \in S : \A y \in S : x <= y
Max(S) == CHOOSE x \in S : \A y \in S : x >= y

(***************************************************************************)
(* Package identities (crate_name.rs).  A name is a sequence of            *)
(* characters.                                                             *)
(***************************************************************************)

\* eq_ignoring_dash_underscore: walk both strings in step; '-' and '_' match
\* each other, any other pair must be the same character, and both strings
\* must end together.
RECURSIVE eq_ignoring_dash_underscore(_, _)
eq_ignoring_dash_underscore(a, b) ==
    IF a = <<>> /\ b = <<>> THEN TRUE
    ELSE IF a = <<>> \/ b = <<>> THEN FALSE
    ELSE IF \/ (Head(a) = "_" /\ Head(b) = "-")
            \/ (Head(a) = "-" /\ Head(b) = "_")
            \/ Head(a) = Head(b)
         THEN eq_ignoring_dash_underscore(Tail(a), Tail(b))
         ELSE FALSE

\* impl PartialEq for CrateName
CrateNameEq(a, b) == eq_ignoring_dash_underscore(a, b)

\* The byte of a character.
CharCode(ch) ==
    CASE ch = "-" -> 45 [] ch = "A" -> 65 [] ch = "_" -> 95 [] ch = "a" -> 97

\* <str as Ord>::cmp: byte by byte, a proper prefix first.
RECURSIVE StrCmp(_, _)
StrCmp(a, b) ==
    IF a = <<>> /\ b = <<>> THEN "Equal"
    ELSE IF a = <<>> THEN "Less"
    ELSE IF b = <<>> THEN "Greater"
    ELSE IF CharCode(Head(a)) < CharCode(Head(b)) THEN "Less"
    ELSE IF CharCode(Head(a)) > CharCode(Head(b)) THEN "Greater"
    ELSE StrCmp(Tail(a), Tail(b))

\* #[derive(Ord)] for CrateName: the cmp of its one field, the string.
CrateNameCmp(a, b) == StrCmp(a, b)

\* impl PartialOrd for CrateName
CrateNamePartialCmp(a, b) ==
    IF eq_ignoring_dash_underscore(a, b) THEN Some("Equal")
    ELSE Some(StrCmp(a, b))

(***************************************************************************)
(* Item kinds and discriminators (rustdoc_data.rs, doc_ref.rs).            *)
(***************************************************************************)

\* DocRef::kind: the ItemKind of an item's `inner` variant.
KindOfInner(inner) ==
    CASE inner = "ProcMacroAttr" -> "ProcAttribute"
      [] inner = "ProcMacroDerive" -> "ProcDerive"
      [] inner = "ProcMacroBang" -> "Macro"
      [] OTHER -> inner

\* kind_discriminator with the module label spelled out in full.
kind_discriminator_long(kind) ==
    CASE kind = "Module" -> "module"
      [] kind = "Struct" -> "struct"
      [] kind = "Function" -> "fn"
      [] OTHER -> "item"

kind_discriminator(kind) ==
    CASE kind = "Module" -> "mod"
      [] kind = "Struct" -> "struct"
      [] kind = "Enum" -> "enum"
      [] kind = "Union" -> "union"
      [] kind = "Trait" -> "trait"
      [] kind = "TraitAlias" -> "traitalias"
      [] kind = "Function" -> "fn"
      [] kind = "TypeAlias" -> "tyalias"
      [] kind = "AssocType" -> "type"
      [] kind \in {"Constant", "AssocConst"} -> "const"
      [] kind = "Static" -> "static"
      [] kind = "Macro" -> "macro"
      [] kind = "ProcAttribute" -> "attr"
      [] kind = "ProcDerive" -> "derive"
      [] kind = "Primitive" -> "prim"
      [] kind = "Variant" -> "variant"
      [] kind = "StructField" -> "field"
      [] kind = "Keyword" -> "keyword"
      [] kind = "Attribute" -> "attribute"
      [] kind \in {"ExternCrate", "Use", "Impl", "ExternType"} -> "item"

(***************************************************************************)
(* The documentation export of the fixture crate (tests/fixture-crate, as  *)
(* the tests of tests.rs describe it): what a Source hands to the          *)
(* Navigator before the reverse index is built.                            *)
(*   index : item id -> item          (rustdoc_types::Crate::index)        *)
(*   paths : item id -> ItemSummary   (rustdoc_types::Crate::paths)        *)
(* An item's `links` are the ids its `inner` lists (a module's items, the  *)
(* items of a struct's impls); a Use item names its `target`.              *)
(***************************************************************************)

Item(name, inner, links) ==
    [name |-> name, inner |-> inner, links |-> links, target |-> None]
UseItem(name, target) ==
    [name |-> Some(name), inner |-> "Use", links |-> <<>>, target |-> Some(target)]
Summary(crate_id, path, kind) ==
    [crate_id |-> crate_id, path |-> path, kind |-> kind]

\* path[0] of every local summary: the crate name as rustdoc writes it.
ExportName == "fixture_crate"
\* RustdocData::name: the Navigator's name of the document.
FixtureName == "fixture-crate"

FixtureIndex ==
    (0 :> Item(Some(ExportName), "Module", <<1, 2, 4, 20, 21>>))
 @@ (1 :> Item(Some("TestStruct"), "Struct", <<>>))
 @@ (2 :> Item(Some("submodule"), "Module", <<3>>))
 @@ (3 :> Item(Some("SubStruct"), "Struct", <<9>>))
 @@ (4 :> Item(Some("namespace_collisions"), "Module", <<5, 6, 11, 12>>))
 @@ (5 :> Item(Some("both"), "Module", <<>>))
 @@ (6 :> Item(Some("both"), "Function", <<>>))
 @@ (8 :> Item(Some("ReachableViaPrivateModule"), "Struct", <<10>>))
 @@ (9 :> Item(Some("new"), "Function", <<>>))
 @@ (10 :> Item(Some("private_module_method"), "Function", <<>>))
 @@ (11 :> Item(Some("Twin"), "Struct", <<13>>))
 @@ (12 :> Item(Some("Twin"), "Function", <<>>))
 @@ (13 :> Item(Some("get"), "Function", <<>>))
 @@ (20 :> UseItem("ReachableViaPrivateModule", 8))
 @@ (21 :> Item(Some("TEST_CONSTANT"), "Constant", <<>>))

\* Methods (9, 10, 13) have no summary (rust-lang/rust#152511); the private
\* module 7 and the external item 30 have a summary and no item.
FixturePaths ==
    (0 :> Summary(0, <<ExportName>>, "Module"))
 @@ (1 :> Summary(0, <<ExportName, "TestStruct">>, "Struct"))
 @@ (2 :> Summary(0, <<ExportName, "submodule">>, "Module"))
 @@ (3 :> Summary(0, <<ExportName, "submodule", "SubStruct">>, "Struct"))
 @@ (4 :> Summary(0, <<ExportName, "namespace_collisions">>, "Module"))
 @@ (5 :> Summary(0, <<ExportName, "namespace_collisions", "both">>, "Module"))
 @@ (6 :> Summary(0, <<ExportName, "namespace_collisions", "both">>, "Function"))
 @@ (7 :> Summary(0, <<ExportName, "private_detail">>, "Module"))
 @@ (8 :> Summary(0, <<ExportName, "private_detail", "ReachableViaPrivateModule">>, "Struct"))
 @@ (11 :> Summary(0, <<ExportName, "namespace_collisions", "Twin">>, "Struct"))
 @@ (12 :> Summary(0, <<ExportName, "namespace_collisions", "Twin">>, "Function"))
 @@ (21 :> Summary(0, <<ExportName, "TEST_CONSTANT">>, "Constant"))
 @@ (30 :> Summary(1, <<"dep", "Thing">>, "Struct"))

\* The export a Source produces for the fixture crate, with the given root
\* id: 0 is the well-formed export, 99 is one whose designated root id is
\* absent from the item graph.
Export(root) ==
    [name |-> FixtureName, root |-> root, index |-> FixtureIndex,
     paths |-> FixturePaths, path_to_id |-> <<>>]

\* The root ids of the exports a Source may load.
Exports == {0, 99}

(***************************************************************************)
(* RustdocData::build_path_index (rustdoc_data.rs).                        *)
(***************************************************************************)

\* [String]::join("::")
RECURSIVE Join(_)
Join(segs) ==
    IF segs = <<>> THEN <<>>
    ELSE IF Len(segs) = 1 THEN <<segs[1]>>
    ELSE <<segs[1], Sep>> \o Join(Tail(segs))

\* slice.get(1..): None for an empty slice, else everything after the first.
TailOf(path) ==
    IF Len(path) >= 1 THEN Some(SubSeq(path, 2, Len(path))) ELSE None

\* str::rfind("::"): the position of the last separator, 0 when there is none.
RFindSep(str) ==
    LET hits == {i \in 1..Len(str) : str[i] = Sep}
    IN IF hits = {} THEN 0 ELSE Max(hits)

\* build_path_index without the test of the owning crate.
IndexedIds_any_crate(doc) ==
    {id \in DOMAIN doc.paths :
        /\ IsSome(TailOf(doc.paths[id].path))
        /\ Unwrap(TailOf(doc.paths[id].path)) # <<>>}

\* The ids build_path_index groups: local items whose path has something
\* after the crate name.
IndexedIds(doc) ==
    {id \in DOMAIN doc.paths :
        /\ doc.paths[id].crate_id = 0
        /\ IsSome(TailOf(doc.paths[id].path))
        /\ Unwrap(TailOf(doc.paths[id].path)) # <<>>}

UnqualifiedKey(doc, id) == Join(Unwrap(TailOf(doc.paths[id].path)))

\* A qualified key with the discriminator in front of the whole path.
QualifiedKey_front(unqualified, kind) ==
    <<kind_discriminator(kind), At>> \o unqualified

\* A qualified key that tells the kinds apart only as type or value.
QualifiedKey_namespace(unqualified, kind) ==
    LET sep == RFindSep(unqualified)
    IN SubSeq(unqualified, 1, sep)
         \o <<(IF kind \in {"Function", "Constant", "Static"}
               THEN "value" ELSE "type"), At>>
         \o SubSeq(unqualified, sep + 1, Len(unqualified))

\* format!("{prefix}{}@{last_name}", kind_discriminator(kind))
QualifiedKey(unqualified, kind) ==
    LET sep == RFindSep(unqualified)
    IN SubSeq(unqualified, 1, sep)
         \o <<kind_discriminator(kind), At>>
         \o SubSeq(unqualified, sep + 1, Len(unqualified))

\* by_unqualified[key]: the items that share one unqualified path.
ItemsAt(doc, key) == {id \in IndexedIds(doc) : UnqualifiedKey(doc, id) = key}

\* The position of an id in the iteration order of the `paths` HashMap, which
\* the code does not control: either ascending or descending in the id.
Rank(order, id) == IF order = "asc" THEN id ELSE 0 - id

HashOrders == {"asc", "desc"}

\* build_path_index without the unqualified entries.
InsertsUnqualified_never(items) == FALSE

\* build_path_index inserting the unqualified entry for every item.
InsertsUnqualified_always(items) == TRUE

\* The unqualified entry is inserted only for a group of exactly one item.
InsertsUnqualified(items) == Cardinality(items) = 1

\* The map build_path_index leaves in path_to_id.  A later insert of the same
\* key overwrites an earlier one, so a qualified key shared by several items
\* of a group keeps the one iterated last.
build_path_index(doc, order) ==
    LET ids == IndexedIds(doc)
        unq == {UnqualifiedKey(doc, id) : id \in ids}
        qual == {QualifiedKey(UnqualifiedKey(doc, id), doc.paths[id].kind) : id \in ids}
        single == {u \in unq : InsertsUnqualified(ItemsAt(doc, u))}
        lastOf(q) ==
            LET same == {id \in ids :
                          QualifiedKey(UnqualifiedKey(doc, id), doc.paths[id].kind) = q}
            IN CHOOSE id \in same : \A o \in same : Rank(order, o) <= Rank(order, id)
        map == [k \in qual \cup single |->
                  IF k \in qual THEN lastOf(k)
                  ELSE CHOOSE id \in ItemsAt(doc, k) : TRUE]
    IN [doc EXCEPT !.path_to_id = map]

(***************************************************************************)
(* DocRef handles (doc_ref.rs).                                            *)
(***************************************************************************)

\* DocRef::new: no name override, no parent.
DocRefNew(crate, id) ==
    [crate |-> crate, item |-> id, name |-> None, parent |-> None]

\* impl From<DocRef> for ParentRef
ParentRefOf(d) == [crate |-> d.crate, item |-> d.item, name |-> d.name]

\* An equality that also compares the name a handle goes by.
DocRefEq_with_name(a, b) == a.item = b.item /\ a.crate = b.crate /\ a.name = b.name

\* impl PartialEq for DocRef: the same item of the same document.
DocRefEq(a, b) == a.item = b.item /\ a.crate = b.crate

\* RustdocData::get
Get(doc, id) ==
    IF id \in DOMAIN doc.index THEN Some(DocRefNew(doc.name, id)) ELSE None

\* DocRef::summary
SummaryOf(doc, id) ==
    IF id \in DOMAIN doc.paths THEN Some(doc.paths[id]) ELSE None

\* DocRef::kind
KindOf(doc, h) == KindOfInner(doc.index[h.item].inner)

\* DocRef::name: the override, else the item's own name, else the last
\* segment of its summary path.
NameOf(doc, h) ==
    IF IsSome(h.name) THEN h.name
    ELSE IF IsSome(doc.index[h.item].name) THEN doc.index[h.item].name
    ELSE IF IsSome(SummaryOf(doc, h.item))
              /\ Unwrap(SummaryOf(doc, h.item)).path # <<>>
         THEN LET path == Unwrap(SummaryOf(doc, h.item)).path
              IN Some(path[Len(path)])
         ELSE None

\* The summary branch starting the path with path[0], the export's own name.
SummaryPath_export_name(doc, h, summary) ==
    LET path == summary.path
        d == kind_discriminator(KindOf(doc, h))
    IN IF path = <<>> THEN None
       ELSE IF Len(path) = 1 THEN Some(<<path[1], Sep, d, At, path[1]>>)
       ELSE Some(<<path[1], Sep>>
                   \o Join(SubSeq(path, 2, Len(path) - 1))
                   \o (IF Len(path) > 2 THEN <<Sep>> ELSE <<>>)
                   \o <<d, At, path[Len(path)]>>)

\* The summary branch of discriminated_path.
SummaryPath(doc, h, summary) ==
    LET path == summary.path
        tail == TailOf(path)
        d == kind_discriminator(KindOf(doc, h))
    IN IF ~IsSome(tail) THEN None
       ELSE IF Unwrap(tail) = <<>>
            THEN Some(<<doc.name, Sep, d, At, path[1]>>)
       ELSE LET t == Unwrap(tail)
                prefix == Join(SubSeq(t, 1, Len(t) - 1))
                last == t[Len(t)]
            IN IF prefix = <<>>
               THEN Some(<<doc.name, Sep, d, At, last>>)
               ELSE Some(<<doc.name, Sep>> \o prefix \o <<Sep, d, At, last>>)

\* discriminated_path naming every parent by its plain path.
ParentKeyIndexed_always(doc, parent_key) == TRUE

\* Whether discriminated_path may name the parent by its plain path: the
\* parent has a summary whose joined tail is a key of the reverse index.
ParentKeyIndexed(doc, parent_key) == parent_key \in DOMAIN doc.path_to_id

\* discriminated_path without the fallback for items that have no summary.
discriminated_path_summary_only(doc, h) ==
    IF IsSome(SummaryOf(doc, h.item))
    THEN SummaryPath(doc, h, Unwrap(SummaryOf(doc, h.item)))
    ELSE None

\* DocRef::discriminated_path.  The parent is rebuilt with DocRef::new, so
\* it has no parent of its own and the recursion is one level deep.
discriminated_path(doc, h) ==
    IF IsSome(SummaryOf(doc, h.item))
    THEN SummaryPath(doc, h, Unwrap(SummaryOf(doc, h.item)))
    ELSE IF ~IsSome(h.parent) THEN None
    ELSE IF ~IsSome(doc.index[h.item].name) THEN None
    ELSE
      LET parent_ref == Unwrap(h.parent)
          d == kind_discriminator(KindOf(doc, h))
          name == Unwrap(doc.index[h.item].name)
          psum == SummaryOf(doc, parent_ref.item)
          ptail == IF IsSome(psum) THEN TailOf(Unwrap(psum).path) ELSE None
          parent_key == IF IsSome(ptail) THEN Join(Unwrap(ptail)) ELSE <<>>
      IN IF IsSome(ptail) /\ ParentKeyIndexed(doc, parent_key)
         THEN LET parent_path ==
                    IF parent_key = <<>> THEN <<doc.name>>
                    ELSE <<doc.name, Sep>> \o parent_key
              IN Some(parent_path \o <<Sep, d, At, name>>)
         ELSE
           LET parent == [DocRefNew(parent_ref.crate, parent_ref.item)
                             EXCEPT !.name = parent_ref.name]
               parent_path ==
                  IF IsSome(SummaryOf(doc, parent.item))
                  THEN SummaryPath(doc, parent, Unwrap(SummaryOf(doc, parent.item)))
                  ELSE None
           IN IF ~IsSome(parent_path) THEN None
              ELSE Some(Unwrap(parent_path) \o <<Sep, d, At, name>>)

\* DocRef::child_items: the handles of the items an item lists, in order,
\* each with this handle as its parent; a re-export (Use) yields its target
\* under the re-export's name.  Ids with no item are skipped.
child_items(doc, h) ==
    LET links == doc.index[h.item].links
        present(id) ==
            /\ id \in DOMAIN doc.index
            /\ (IsSome(doc.index[id].target)
                  => Unwrap(doc.index[id].target) \in DOMAIN doc.index)
        ok == SelectSeq(links, present)
        child(id) ==
            LET it == doc.index[id]
            IN IF IsSome(it.target)
               THEN [crate |-> h.crate, item |-> Unwrap(it.target),
                     name |-> it.name, parent |-> Some(ParentRefOf(h))]
               ELSE [crate |-> h.crate, item |-> id,
                     name |-> None, parent |-> Some(ParentRefOf(h))]
    IN [i \in 1..Len(ok) |-> child(ok[i])]

\* DocRef::find_by_path: follow the first child whose name is the next
\* segment; the search does not come back to try another child.
RECURSIVE find_by_path(_, _, _)
find_by_path(doc, h, segs) ==
    IF segs = <<>> THEN Some(h)
    ELSE LET cs == child_items(doc, h)
             hits == {i \in 1..Len(cs) : NameOf(doc, cs[i]) = Some(segs[1])}
         IN IF hits = {} THEN None
            ELSE find_by_path(doc, cs[Min(hits)], Tail(segs))

\* RustdocData::root_item indexes the item map with the root id, which aborts
\* when the id has no item.
RootItemPanics(doc) == doc.root \notin DOMAIN doc.index

\* RustdocData::get_path for an item of this crate (crate_id 0); the summary
\* of an item of another crate asks the Navigator for that crate, which the
\* fixture's Sources do not have.  Only called when root_item does not abort.
get_path(doc, id) ==
    IF id \notin DOMAIN doc.paths THEN None
    ELSE IF doc.paths[id].crate_id # 0 THEN None
    ELSE find_by_path(doc, DocRefNew(doc.name, doc.root),
                      SubSeq(doc.paths[id].path, 2, Len(doc.paths[id].path)))

(***************************************************************************)
(* Navigator::resolve_path.                                                *)
(***************************************************************************)

\* str::split("::")
RECURSIVE Split(_)
Split(str) ==
    LET hits == {i \in 1..Len(str) : str[i] = Sep}
    IN IF hits = {} THEN <<str>>
       ELSE <<SubSeq(str, 1, Min(hits) - 1)>>
              \o Split(SubSeq(str, Min(hits) + 1, Len(str)))

\* A segment is `name` or `kind@name`; anything else names nothing.
ParseSegment(seg) ==
    IF Len(seg) = 1 /\ seg[1] # At THEN Some([disc |-> None, name |-> seg[1]])
    ELSE IF Len(seg) = 3 /\ seg[2] = At /\ seg[1] # At /\ seg[3] # At
         THEN Some([disc |-> Some(seg[1]), name |-> seg[3]])
    ELSE None

\* The characters of the package names the model uses.
CharsOf(name) ==
    CASE name = "fixture-crate" ->
           <<"f", "i", "x", "t", "u", "r", "e", "-", "c", "r", "a", "t", "e">>
      [] name = "fixture_crate" ->
           <<"f", "i", "x", "t", "u", "r", "e", "_", "c", "r", "a", "t", "e">>
      [] name = "crate" -> <<"c", "r", "a", "t", "e">>
      [] name = "dep" -> <<"d", "e", "p">>
      [] OTHER -> <<"n", "o", "p", "e">>

\* Navigator::canonicalize: "crate" is the package of a single-member
\* workspace; any other name stands for itself.
Canonicalize(pkg) == IF pkg = "crate" THEN FixtureName ELSE pkg

\* Whether the Sources can supply the package a path starts with.
Loadable(pkg) ==
    CrateNameEq(CharsOf(Canonicalize(pkg)), CharsOf(FixtureName))

\* The children of h that a segment names: the name is the segment's, and
\* the kind is the discriminator's when the segment has one.
Matching(doc, h, seg) ==
    LET cs == child_items(doc, h)
        hit(c) ==
            /\ NameOf(doc, c) = Some(seg.name)
            /\ (IsSome(seg.disc)
                  => kind_discriminator(KindOf(doc, c)) = Unwrap(seg.disc))
    IN SelectSeq(cs, hit)

\* The first Some of a sequence of options.
FirstSome(opts) ==
    LET hits == {i \in 1..Len(opts) : IsSome(opts[i])}
    IN IF hits = {} THEN None ELSE opts[Min(hits)]

\* Tree traversal: descend child by child along the segments, trying the
\* matching children of each level in order.
RECURSIVE Traverse(_, _, _)
Traverse(doc, h, segs) ==
    IF segs = <<>> THEN Some(h)
    ELSE IF ~IsSome(ParseSegment(segs[1])) THEN None
    ELSE LET ms == Matching(doc, h, Unwrap(ParseSegment(segs[1])))
         IN FirstSome([i \in 1..Len(ms) |-> Traverse(doc, ms[i], Tail(segs))])

\* Join for segments that are token sequences themselves.
RECURSIVE JoinSegments(_)
JoinSegments(segs) ==
    IF segs = <<>> THEN <<>>
    ELSE IF Len(segs) = 1 THEN segs[1]
    ELSE segs[1] \o <<Sep>> \o JoinSegments(Tail(segs))

\* The reverse-index fallback for the whole remaining path: the key is the
\* path after the package segment as written (qualified when the last
\* segment has a discriminator, unqualified otherwise).
IndexLookup(doc, key) ==
    IF key \in DOMAIN doc.path_to_id THEN Get(doc, doc.path_to_id[key]) ELSE None

\* The reverse-index fallback for a proper prefix of the path, with tree
\* traversal from the item found for what remains (the parent of a method
\* whose struct lives in a private module): longest prefix first.
PrefixLookup(doc, segs) ==
    LET try(k) ==
            LET found == IndexLookup(doc, JoinSegments(SubSeq(segs, 1, k)))
            IN IF IsSome(found)
               THEN Traverse(doc, Unwrap(found), SubSeq(segs, k + 1, Len(segs)))
               ELSE None
        n == Len(segs) - 1
    IN FirstSome([i \in 1..n |-> try(n + 1 - i)])

\* resolve_path on a loaded document: tree traversal from the root, then the
\* reverse index.
ResolveIn(doc, segs) ==
    LET root == Get(doc, doc.root)
        walked == IF IsSome(root) THEN Traverse(doc, Unwrap(root), segs) ELSE None
    IN IF IsSome(walked) THEN walked
       ELSE IF segs = <<>> THEN None
       ELSE IF IsSome(IndexLookup(doc, JoinSegments(segs)))
            THEN IndexLookup(doc, JoinSegments(segs))
       ELSE PrefixLookup(doc, segs)

(***************************************************************************)
(* The path-resolution machine: a client that resolves paths, walks to     *)
(* children, asks for discriminated paths and resolves them again.         *)
(***************************************************************************)

\* The paths (after the package segment) a client asks for: every path of
\* the fixture's public tree and of its summaries, and some that name
\* nothing.
InputTails ==
    { <<>>,
      <<"TestStruct">>, <<"TEST_CONSTANT">>,
      <<"submodule">>, <<"submodule", "SubStruct">>,
      <<"submodule", "SubStruct", "new">>,
      <<"namespace_collisions">>, <<"namespace_collisions", "both">>,
      <<"namespace_collisions", "Twin">>,
      <<"namespace_collisions", "Twin", "get">>,
      <<"ReachableViaPrivateModule">>,
      <<"ReachableViaPrivateModule", "private_module_method">>,
      <<"private_detail">>, <<"private_detail", "ReachableViaPrivateModule">>,
      <<"private_detail", "ReachableViaPrivateModule", "private_module_method">>,
      <<ExportName>>, <<"Thing">>, <<"submodule", "missing">> }

\* The paths asked for under the package's own name as well as under the
\* alias "crate".
NamedTails ==
    { <<>>, <<"TestStruct">>, <<"private_detail">>,
      <<"private_detail", "ReachableViaPrivateModule">>,
      <<"private_detail", "ReachableViaPrivateModule", "private_module_method">> }

InputDiscriminators == {"mod", "fn", "struct"}

\* The paths asked for with a kind discriminator on the last segment.
DiscriminatedTails ==
    { <<"namespace_collisions", "both">>,
      <<"namespace_collisions", "Twin">>,
      <<"private_detail", "ReachableViaPrivateModule">>,
      <<"ReachableViaPrivateModule">>,
      <<"submodule", "SubStruct">> }

\* "pkg::a::b::[kind@]last" as a string.
PathString(pkg, tail, d) ==
    IF tail = <<>> THEN <<pkg>>
    ELSE <<pkg, Sep>>
           \o (IF Len(tail) = 1 THEN <<>> ELSE Join(SubSeq(tail, 1, Len(tail) - 1)) \o <<Sep>>)
           \o (IF IsSome(d) THEN <<Unwrap(d), At>> ELSE <<>>)
           \o <<tail[Len(tail)]>>

InputPaths ==
    {PathString("crate", tail, None) : tail \in InputTails}
    \cup {PathString(FixtureName, tail, None) : tail \in NamedTails}
    \cup {PathString(FixtureName, tail, Some(d)) :
            tail \in DiscriminatedTails, d \in InputDiscriminators}
    \cup {PathString("crate", <<"namespace_collisions", "both">>, Some(d)) :
            d \in InputDiscriminators}
    \cup {PathString("nope", <<"TestStruct">>, None),
          PathString(ExportName, <<"TestStruct">>, None)}

\* A load_crate that inserts what the Source loads as it is and builds the
\* reverse index at the next call.
LoadCrate_index_later(ws, pkg, export, order) ==
    IF ~Loadable(pkg) THEN ws
    ELSE IF IsSome(ws) THEN Some(build_path_index(Unwrap(ws), order))
    ELSE Some(Export(export))

\* Navigator::load_crate for the package a path starts with: the cached
\* document, else what a Source loads, indexed before it is inserted.
LoadCrate(ws, pkg, export, order) ==
    IF ~Loadable(pkg) THEN ws
    ELSE IF IsSome(ws) THEN ws
    ELSE Some(build_path_index(Export(export), order))

\* Navigator::resolve_path(path) against the document cache `ws`.
resolve_path(ws, path) ==
    LET segs == Split(path)
    IN IF segs[1] = <<>> \/ Len(segs[1]) # 1 THEN None
       ELSE IF ~Loadable(segs[1][1]) \/ ~IsSome(ws) THEN None
       ELSE ResolveIn(Unwrap(ws), Tail(segs))

ResolvePath(path) ==
    /\ UNCHANGED not_path_vars
    /\ ~path_panicked
    /\ \E export \in Exports, order \in HashOrders :
         /\ IsSome(working_set) =>
              export = Unwrap(working_set).root /\ order = "asc"
         /\ LET ws == LoadCrate(working_set, Split(path)[1][1], export, order)
            IN /\ working_set' = ws
               /\ cur' = resolve_path(ws, path)
    /\ req' = Some(path)
    /\ origin' = "resolve_path"
    /\ disc' = Unset
    /\ back' = Unset
    /\ UNCHANGED <<kept, path_panicked>>

\* The client keeps the handle it has resolved, to compare it with a later one.
Keep ==
    /\ UNCHANGED not_path_vars
    /\ ~path_panicked
    /\ origin = "resolve_path"
    /\ IsSome(cur)
    /\ kept' = Some([req |-> Unwrap(req), h |-> Unwrap(cur)])
    /\ UNCHANGED <<working_set, cur, req, origin, disc, back, path_panicked>>

\* The client takes the i-th of child_items() of the current handle.
ChildItem(i) ==
    /\ UNCHANGED not_path_vars
    /\ ~path_panicked
    /\ IsSome(cur) /\ IsSome(working_set)
    /\ i \in 1..Len(child_items(Unwrap(working_set), Unwrap(cur)))
    /\ cur' = Some(child_items(Unwrap(working_set), Unwrap(cur))[i])
    /\ req' = None
    /\ origin' = "child_items"
    /\ disc' = Unset
    /\ back' = Unset
    /\ UNCHANGED <<working_set, kept, path_panicked>>

\* DocRef::get_path(id) on the current handle.
GetPath(id) ==
    /\ UNCHANGED not_path_vars
    /\ ~path_panicked
    /\ IsSome(cur) /\ IsSome(working_set)
    /\ IF id \in DOMAIN Unwrap(working_set).paths
          /\ Unwrap(working_set).paths[id].crate_id = 0
          /\ RootItemPanics(Unwrap(working_set))
       THEN /\ path_panicked' = TRUE
            /\ UNCHANGED <<working_set, cur, req, origin, kept, disc, back>>
       ELSE /\ cur' = get_path(Unwrap(working_set), id)
            /\ req' = None
            /\ origin' = "get_path"
            /\ disc' = Unset
            /\ back' = Unset
            /\ UNCHANGED <<working_set, kept, path_panicked>>

\* cur.discriminated_path()
DiscriminatedPath ==
    /\ UNCHANGED not_path_vars
    /\ ~path_panicked
    /\ IsSome(cur) /\ IsSome(working_set)
    /\ ~disc.set
    /\ disc' = SetTo(discriminated_path(Unwrap(working_set), Unwrap(cur)))
    /\ UNCHANGED <<working_set, cur, req, origin, kept, back, path_panicked>>

\* resolve_path(discriminated path)
ResolveBack ==
    /\ UNCHANGED not_path_vars
    /\ ~path_panicked
    /\ disc.set /\ IsSome(disc.val)
    /\ ~back.set
    /\ back' = SetTo(resolve_path(working_set, Unwrap(disc.val)))
    /\ UNCHANGED <<working_set, cur, req, origin, kept, disc, path_panicked>>

PathNext ==
    \/ \E path \in InputPaths : ResolvePath(path)
    \/ Keep
    \/ \E i \in 1..Cardinality(DOMAIN FixtureIndex) : ChildItem(i)
    \/ \E id \in DOMAIN FixturePaths : GetPath(id)
    \/ DiscriminatedPath
    \/ ResolveBack


(***************************************************************************)
(* Maps keyed by package identity (the search-index cache, search.rs): a   *)
(* set of entries, each found again by the hash of its key and then by     *)
(* the key's equality.                                                     *)
(***************************************************************************)

\* A hash of the bytes as they are.
CrateNameHash_raw(a) == a

\* impl Hash for CrateName: the bytes written to the hasher, '-' written as
\* '_'.  Two identities have the same hash when they write the same bytes.
CrateNameHash(a) == [i \in 1..Len(a) |-> IF a[i] = "-" THEN "_" ELSE a[i]]

\* The entries a lookup of `key` lands on.
MapEntries(map, key) ==
    {e \in map : e.hash = CrateNameHash(key) /\ CrateNameEq(e.key, key)}

\* map.get(key): Some(value) or None.
MapGet(map, key) ==
    IF MapEntries(map, key) = {} THEN None
    ELSE Some((CHOOSE e \in MapEntries(map, key) : TRUE).val)

\* map.insert(key, value) of an insert-once map: a key that is present keeps
\* its value, and the call returns the value the map holds afterwards.
MapInsert(map, key, val) ==
    IF MapEntries(map, key) = {}
    THEN map \cup {[hash |-> CrateNameHash(key), key |-> key, val |-> val]}
    ELSE map

(***************************************************************************)
(* The package-identity machine: two identities are compared and hashed,   *)
(* one is inserted into a map and the other looked up.                     *)
(***************************************************************************)

NameAlphabet == {"a", "A", "-", "_"}
MaxNameLen == 3
NamesUpTo(n) == UNION {[1..k -> NameAlphabet] : k \in 0..n}

\* name_a == name_b, and the hashes of both.
NameCompare ==
    /\ UNCHANGED not_name_vars
    /\ ~name_cmp.set
    /\ name_cmp' = [set |-> TRUE, eq |-> CrateNameEq(name_a, name_b),
                    hash_a |-> CrateNameHash(name_a),
                    hash_b |-> CrateNameHash(name_b)]
    /\ UNCHANGED <<name_a, name_b, name_map, name_found, name_ord>>

\* map.insert(name_a, ..)
NameInsert ==
    /\ UNCHANGED not_name_vars
    /\ name_map = {}
    /\ name_map' = MapInsert(name_map, name_a, "entry")
    /\ UNCHANGED <<name_a, name_b, name_cmp, name_found, name_ord>>

\* map.get(name_b)
NameGet ==
    /\ UNCHANGED not_name_vars
    /\ name_map # {}
    /\ ~name_found.set
    /\ name_found' = SetTo(MapGet(name_map, name_b))
    /\ UNCHANGED <<name_a, name_b, name_cmp, name_map, name_ord>>

\* name_a.cmp(&name_b) and name_a.partial_cmp(&name_b)
NameOrder ==
    /\ UNCHANGED not_name_vars
    /\ ~name_ord.set
    /\ name_ord' = SetTo([cmp |-> CrateNameCmp(name_a, name_b),
                          partial_cmp |-> CrateNamePartialCmp(name_a, name_b)])
    /\ UNCHANGED <<name_a, name_b, name_cmp, name_map, name_found>>

NameNext == NameCompare \/ NameInsert \/ NameGet \/ NameOrder

(***************************************************************************)
(* The search machine (search.rs): search calls that fan their package     *)
(* list out to parallel tasks, each running get_or_build_search_index.     *)
(***************************************************************************)

MaxTasks == 2

\* The package names callers ask for: two spellings of one identity, and
\* another identity.
SearchNames == {<<"a", "-", "b">>, <<"a", "_", "b">>, <<"c">>}

SearchLists == UNION {[1..k -> SearchNames] : k \in 0..MaxTasks}

CallIds == 1..MaxTasks

\* Result<_, Vec<Suggestion>>: Ok carries the index (or the hits), Err the
\* suggestion list.
Ok(v) == [ok |-> TRUE, val |-> v, sugg |-> <<>>]
Err(suggestions) == [ok |-> FALSE, val |-> <<>>, sugg |-> suggestions]
NoResult == Err(<<>>)

\* `after` is not state of the code: it notes which calls had returned when
\* this one was made.
IdleCall == [state |-> "idle", names |-> <<>>, result |-> NoResult, after |-> {}]

\* The search calls that have returned.
CallsReturned == {d \in CallIds : calls[d].state \in {"done", "panicked"}}
NewTask == [pc |-> "check", result |-> NoResult]

\* Navigator::canonicalize for a name no Source has an opinion on.
CanonicalName(name) == name

\* How many tasks the calls so far have started.
TasksStarted ==
    LET sum[c \in 0..MaxTasks] == IF c = 0 THEN 0 ELSE sum[c - 1] + Len(tasks[c])
    IN sum[MaxTasks]

\* How many index loads or builds have run so far.
TotalAttempts ==
    LET names == CHOOSE q \in [1..Cardinality(SearchNames) -> SearchNames] :
                    \A n \in SearchNames : \E i \in DOMAIN q : q[i] = n
        sum[i \in 0..Len(names)] ==
            IF i = 0 THEN 0 ELSE sum[i - 1] + attempts[names[i]]
    IN sum[Len(names)]

\* search failing as soon as one package failed.
SearchOutcome_strict(names, results) ==
    LET errs == {i \in 1..Len(results) : ~results[i].ok}
    IN IF errs # {}
       THEN [ok |-> FALSE, val |-> <<>>, sugg |-> results[Min(errs)].sugg]
       ELSE [ok |-> TRUE,
             val |-> [i \in 1..Len(results) |->
                         [crate |-> names[i], index |-> results[i].val]],
             sugg |-> <<>>]

\* The outcome of Navigator::search once every task has returned: Err with
\* the first error when no package succeeded and there was an error, else Ok
\* with the hits of the packages that succeeded (one hit list per package,
\* in request order).
SearchOutcome(names, results) ==
    LET isOk(i) == results[i].ok
        errs == {i \in 1..Len(results) : ~results[i].ok}
        first_error == IF errs = {} THEN None ELSE Some(results[Min(errs)].sugg)
        hit(i) == [crate |-> names[i], index |-> results[i].val]
        oks == SelectSeq([i \in 1..Len(results) |-> i], isOk)
        crate_results == [j \in 1..Len(oks) |-> hit(oks[j])]
    IN IF crate_results = <<>> /\ IsSome(first_error)
       THEN Err(Unwrap(first_error))
       ELSE Ok(crate_results)

\* The queries callers search for: the empty query and another.
Queries == {"", "q"}

\* An empty package list answered with an error.
EmptyListResult_error(query) == Err(<<>>)

\* search with crate_names empty: Ok(vec![]), whatever the query.
EmptyListResult(query) == Ok(<<>>)

\* Navigator::search(query, crate_names): an empty list returns at once,
\* any other list starts one task per name.
StartSearch(c, names) ==
    /\ UNCHANGED not_search_vars
    /\ calls[c].state = "idle"
    /\ \A d \in CallIds : d < c => calls[d].state # "idle"
    /\ TasksStarted + Len(names) <= MaxTasks
    /\ IF names = <<>>
       THEN /\ \E query \in Queries :
                  calls' = [calls EXCEPT ![c] =
                              [state |-> "done", names |-> names,
                               result |-> EmptyListResult(query),
                               after |-> CallsReturned]]
            /\ UNCHANGED tasks
       ELSE /\ calls' = [calls EXCEPT ![c] =
                           [state |-> "running", names |-> names,
                            result |-> NoResult, after |-> CallsReturned]]
            /\ tasks' = [tasks EXCEPT ![c] = [i \in 1..Len(names) |-> NewTask]]
    /\ UNCHANGED <<search_indexes, attempts>>

\* get_or_build_search_index, the cache lookup: a cached index or a cached
\* failure returns at once, a missing entry goes on to load.
TaskCheck(c, i) ==
    /\ UNCHANGED not_search_vars
    /\ calls[c].state = "running"
    /\ i \in 1..Len(tasks[c])
    /\ tasks[c][i].pc = "check"
    /\ LET cached == MapGet(search_indexes, CanonicalName(calls[c].names[i]))
       IN tasks' = [tasks EXCEPT ![c][i] =
            IF ~IsSome(cached) THEN [@ EXCEPT !.pc = "load"]
            ELSE IF IsSome(Unwrap(cached))
                 THEN [@ EXCEPT !.pc = "done", !.result = Ok(Unwrap(cached))]
                 ELSE [@ EXCEPT !.pc = "done", !.result = Err(<<>>)]]
    /\ UNCHANGED <<search_indexes, calls, attempts>>

\* A failed load that leaves the cache alone.
CacheFailure_skipped(map, key) == map

\* A cache in which a loaded index takes the place of the entry of its key.
CacheIndex_overwrite(map, key, index) ==
    (map \ MapEntries(map, key))
        \cup {[hash |-> CrateNameHash(key), key |-> key, val |-> index]}

\* What the cache holds after a load that gave an index ...
CacheIndex(map, key, index) == MapInsert(map, key, index)
\* ... and after one that failed.
CacheFailure(map, key) == MapInsert(map, key, None)

\* get_or_build_search_index after a cache miss: SearchIndex::load_or_build
\* runs (file and network access decide whether it yields an index or
\* suggestions) and its outcome is offered to the cache.  After a successful
\* load the entry the cache then holds is unwrapped, which aborts when that
\* entry is a failure.
TaskLoad(c, i, found) ==
    /\ UNCHANGED not_search_vars
    /\ calls[c].state = "running"
    /\ i \in 1..Len(tasks[c])
    /\ tasks[c][i].pc = "load"
    /\ attempts' = [attempts EXCEPT ![calls[c].names[i]] = @ + 1]
    /\ LET key == CanonicalName(calls[c].names[i])
       IN IF found
          THEN /\ search_indexes' =
                     CacheIndex(search_indexes, key, Some(TotalAttempts + 1))
               /\ tasks' = [tasks EXCEPT ![c][i] =
                    IF IsSome(Unwrap(MapGet(search_indexes', key)))
                    THEN [@ EXCEPT !.pc = "done",
                                   !.result = Ok(Unwrap(MapGet(search_indexes', key)))]
                    ELSE [@ EXCEPT !.pc = "panicked"]]
          ELSE /\ search_indexes' = CacheFailure(search_indexes, key)
               /\ tasks' = [tasks EXCEPT ![c][i] =
                    [@ EXCEPT !.pc = "done",
                              !.result = Err(<<calls[c].names[i]>>)]]
    /\ UNCHANGED calls

\* The fan-out is over; search sorts the results out and returns, or passes on
\* the panic of a task.
FinishSearch(c) ==
    /\ UNCHANGED not_search_vars
    /\ calls[c].state = "running"
    /\ \A i \in 1..Len(tasks[c]) : tasks[c][i].pc \in {"done", "panicked"}
    /\ IF \E i \in 1..Len(tasks[c]) : tasks[c][i].pc = "panicked"
       THEN calls' = [calls EXCEPT ![c].state = "panicked"]
       ELSE calls' = [calls EXCEPT
               ![c].state = "done",
               ![c].result = SearchOutcome(calls[c].names,
                                 [i \in 1..Len(tasks[c]) |-> tasks[c][i].result])]
    /\ UNCHANGED <<search_indexes, tasks, attempts>>

SearchNext ==
    \/ \E c \in CallIds, names \in SearchLists : StartSearch(c, names)
    \/ \E c \in CallIds, i \in 1..MaxTasks : TaskCheck(c, i)
    \/ \E c \in CallIds, i \in 1..MaxTasks, found \in BOOLEAN : TaskLoad(c, i, found)
    \/ \E c \in CallIds : FinishSearch(c)

(***************************************************************************)
(* The search command of the ferretin binary (main.rs, Commands::Search):  *)
(* collect every crate's results, sort them, display with early stopping.  *)
(* Scores are f32 in the code; here they are positive integers and the     *)
(* threshold tests are the same comparisons with the divisions multiplied  *)
(* out.                                                                    *)
(***************************************************************************)

MaxResults == 3

\* let min_results = 1;
min_results == 1

CliScores == {2, 38, 40, 96, 100}
EarlyStopFixture == <<100, 96, 40, 38, 2>>
\* Four results so close that the second is displayed.
CloseScores == <<40, 40, 40, 38>>
ScoreLists ==
    UNION {[1..n -> CliScores] : n \in 0..MaxResults}
        \cup {EarlyStopFixture, CloseScores}

\* --limit: 0, values below the number of results, and the default.
CliLimits == {0, 1, 2, 10}

\* project.crate_info(None): the crates of the project, in order.
CliCrates == <<"a", "b">>

\* What index.search(query) returns for each crate: the score list cut in two.
CliInputs ==
    UNION {{<<SubSeq(l, 1, k), SubSeq(l, k + 1, Len(l))>> : k \in 0..Len(l)} :
              l \in ScoreLists}

\* The triples pushed for one crate: (crate_name, id_path, score).
ResultsOf(crate, scores) ==
    [j \in 1..Len(scores) |-> [crate |-> crate, id |-> j, score |-> scores[j]]]

\* A sort that puts an element before the elements of equal score.
RECURSIVE InsertByScore_unstable(_, _)
InsertByScore_unstable(sorted, x) ==
    IF sorted = <<>> THEN <<x>>
    ELSE IF Head(sorted).score > x.score
         THEN <<Head(sorted)>> \o InsertByScore_unstable(Tail(sorted), x)
         ELSE <<x>> \o sorted

\* The place of x in a list sorted by descending score: after every element
\* whose score is not lower (the comparator is score_b.partial_cmp(score_a),
\* and sort_by is stable).
RECURSIVE InsertByScore(_, _)
InsertByScore(sorted, x) ==
    IF sorted = <<>> THEN <<x>>
    ELSE IF Head(sorted).score >= x.score
         THEN <<Head(sorted)>> \o InsertByScore(Tail(sorted), x)
         ELSE <<x>> \o sorted

\* all_results.sort_by(..)
RECURSIVE sort_by(_)
sort_by(results) ==
    IF results = <<>> THEN <<>>
    ELSE InsertByScore(sort_by(SubSeq(results, 1, Len(results) - 1)),
                       results[Len(results)])

\* all_results.iter().map(score).sum()
RECURSIVE SumScores(_)
SumScores(results) ==
    IF results = <<>> THEN 0 ELSE Head(results).score + SumScores(Tail(results))

total_score == SumScores(all_results)
top_score == all_results[1].score

\* A limit test that lets one more result through.
LimitStop_late(i, limit) == i >= min_results /\ i >= limit + 1

\* if i >= min_results && i >= limit { break; }
LimitStop(i, limit) == i >= min_results /\ i >= limit

\* An early stop without the test of the cumulative score.
EarlyStop_no_cumulative(i, score) ==
    /\ i >= min_results
    /\ \/ 20 * score < top_score
       \/ 2 * score < prev_score

\* if i >= min_results && (score / top_score < 0.05 || score / prev_score < 0.5
\*     || cumulative_score / total_score > 0.3) { break; }
EarlyStop(i, score) ==
    /\ i >= min_results
    /\ \/ 20 * score < top_score
       \/ 2 * score < prev_score
       \/ 10 * cumulative_score > 3 * total_score

\* The loop over project.crate_info(None), one crate per step:
\* SearchIndex::load_or_build gives an index, whose results are pushed, or
\* fails, and the crate is skipped.
Collect(loaded) ==
    /\ UNCHANGED not_cli_vars
    /\ cli_pc = "collect"
    /\ all_results' =
          IF loaded
          THEN all_results \o ResultsOf(CliCrates[cli_next], cli_input[cli_next])
          ELSE all_results
    /\ IF cli_next < Len(CliCrates)
       THEN /\ cli_next' = cli_next + 1
            /\ cli_pc' = "collect"
       ELSE /\ cli_next' = 0
            /\ cli_pc' = "sort"
    /\ UNCHANGED <<cli_input, cli_limit, cumulative_score, prev_score, visited>>

\* The sort, the exit when nothing was found, and the set-up of the display
\* loop.
SortResults ==
    /\ UNCHANGED not_cli_vars
    /\ cli_pc = "sort"
    /\ all_results' = sort_by(all_results)
    /\ IF all_results = <<>>
       THEN /\ cli_pc' = "exit"
            /\ UNCHANGED <<cumulative_score, prev_score>>
       ELSE /\ cli_pc' = "display"
            /\ cumulative_score' = 0
            /\ prev_score' = all_results'[1].score
    /\ UNCHANGED <<cli_input, cli_limit, cli_next, visited>>

\* One turn of the display loop for the result at index i = cli_next:
\* the two break tests, then the lookup of the item, which is printed and
\* counted when it is found.
Display(found) ==
    /\ UNCHANGED not_cli_vars
    /\ cli_pc = "display"
    /\ IF cli_next >= Len(all_results)
       THEN /\ cli_pc' = "done"
            /\ UNCHANGED <<cli_next, cumulative_score, prev_score, visited>>
       ELSE LET score == all_results[cli_next + 1].score
            IN IF LimitStop(cli_next, cli_limit) \/ EarlyStop(cli_next, score)
               THEN /\ cli_pc' = "done"
                    /\ UNCHANGED <<cli_next, cumulative_score, prev_score, visited>>
               ELSE /\ cli_pc' = "display"
                    /\ cli_next' = cli_next + 1
                    /\ visited' = Append(visited, [score |-> score, found |-> found])
                    /\ IF found
                       THEN /\ cumulative_score' = cumulative_score + score
                            /\ prev_score' = score
                       ELSE UNCHANGED <<cumulative_score, prev_score>>
    /\ UNCHANGED <<cli_input, cli_limit, all_results>>

CliNext ==
    \/ \E loaded \in BOOLEAN : Collect(loaded)
    \/ SortResults
    \/ \E found \in BOOLEAN : Display(found)

(***************************************************************************)
(* The load machine: concurrent callers of Navigator::load_crate, directly *)
(* and through the external-crate references of a loaded document.  The    *)
(* Sources answer lookup and load as the environment `sources` says.       *)
(***************************************************************************)

MaxLoaders == 2

LoaderIds == 1..MaxLoaders

\* The three Sources (sources.rs: LocalSource, StdSource, DocsRsSource).
Backends == {"local", "std", "docsrs"}

\* The order in which load_crate consults the Sources when the registry is
\* the other way round.
Precedence_registry_first == <<"docsrs", "std", "local">>

\* The order in which load_crate consults the Sources: workspace/local, then
\* standard library, then registry cache.
Precedence == <<"local", "std", "docsrs">>

\* The package names callers ask for.
PkgNames == {"dep", "core", "serde"}

\* What each Source has metadata for (Source::lookup returns Some): either a
\* workspace with a member named like a registry package and a toolchain
\* with the standard library's documentation, or neither.
SourceContents ==
    { [local |-> {"dep"}, std |-> {"core"}, docsrs |-> {"dep", "serde", "core"}],
      [local |-> {}, std |-> {}, docsrs |-> {"dep", "serde"}] }

\* The (Source, package) pairs whose Source::load returns None although
\* lookup succeeded.
BrokenLoads ==
    { {}, {<<"local", "dep">>}, {<<"docsrs", "serde">>} }

Environments ==
    {[has |-> h, broken |-> b] : h \in SourceContents, b \in BrokenLoads}

\* A docs.rs root url, another root url, and their parts.
DocsRs == "https://docs.rs/"
OtherSite == "https://example.org/"

\* navigator::parse_docsrs_url: (name, version) of a docs.rs url, else None.
parse_docsrs_url(url) ==
    IF Len(url) = 4 /\ url[1] = DocsRs /\ url[3] = "/"
    THEN Some([name |-> url[2], version |-> url[4]])
    ELSE None

\* VersionReq::parse("=<version>"), STAR where the version is not a semver.
Star == "*"
ExactVersionReq(version) ==
    IF version \in {"1.0.0", "0.3.1"} THEN <<"=", version>> ELSE Star

\* The external_crates map of a loaded document: ExternalCrate records by
\* crate id.  Every document refers to the same crates here.
external_crates ==
    [id \in 1..4 |->
        CASE id = 1 -> [name |-> "serde", html_root_url |-> None]
          [] id = 2 -> [name |-> "serde_renamed",
                        html_root_url |-> Some(<<DocsRs, "serde", "/", "1.0.0">>)]
          [] id = 3 -> [name |-> "core",
                        html_root_url |-> Some(<<OtherSite>>)]
          [] id = 4 -> [name |-> "dep",
                        html_root_url |-> Some(<<DocsRs, "dep", "/", "latest">>)]]

\* The crate ids a caller follows: this crate, the external crates, and one
\* that is not in the map.
CrateIds == 0..5

\* DocRef<ExternalCrate>::crate_name
crate_name(ext) ==
    IF IsSome(ext.html_root_url) /\ IsSome(parse_docsrs_url(Unwrap(ext.html_root_url)))
    THEN Unwrap(parse_docsrs_url(Unwrap(ext.html_root_url))).name
    ELSE ext.name

\* DocRef<ExternalCrate>::load: the (name, version requirement) it hands to
\* Navigator::load_crate.
ExternalCrate_load(ext) ==
    [name |-> crate_name(ext),
     version_req |->
        IF IsSome(ext.html_root_url)
        THEN LET parsed == parse_docsrs_url(Unwrap(ext.html_root_url))
             IN IF IsSome(parsed) THEN ExactVersionReq(Unwrap(parsed).version)
                ELSE Star
        ELSE Star]

\* RustdocData::traverse_to_crate_by_id: this document for id 0, nothing for
\* an id that is not in external_crates, else a call of load_crate.
traverse_to_crate_by_id(id) ==
    IF id = 0 THEN [kind |-> "self"]
    ELSE IF id \notin DOMAIN external_crates THEN [kind |-> "none"]
    ELSE LET ext == external_crates[id]
             parsed == IF IsSome(ext.html_root_url)
                       THEN parse_docsrs_url(Unwrap(ext.html_root_url))
                       ELSE None
         IN IF IsSome(parsed)
            THEN [kind |-> "load", name |-> Unwrap(parsed).name,
                  version_req |-> ExactVersionReq(Unwrap(parsed).version)]
            ELSE [kind |-> "load", name |-> ext.name, version_req |-> Star]

\* Entries of the document cache.
Absent == [state |-> "absent"]
LoadFailed == [state |-> "failed"]
Loaded(doc) == [state |-> "loaded", doc |-> doc]

\* What a caller of load_crate gets for a cache entry.
Cached(entry) == IF entry.state = "loaded" THEN Some(entry.doc) ELSE None

\* What Source::load hands back: a document without its reverse index.  The
\* serial tells apart the documents of different loads of one package.
NewDocument(key, backend, serial) ==
    [name |-> key, provenance |-> backend, serial |-> serial, indexed |-> FALSE]

IdleLoader ==
    [pc |-> "idle", via |-> "none", key |-> "", waited |-> FALSE,
     source |-> 0, pending |-> None, result |-> None]

\* Callers are told apart by their order of arrival.
Arrives(c) ==
    /\ loaders[c].pc = "idle"
    /\ c > 1 => loaders[c - 1].pc # "idle"

\* A caller that got a document from load_crate holds handles into it, and
\* may follow one of its external-crate references.
HoldsDocument(c) ==
    /\ loaders[c].pc = "done"
    /\ loaders[c].via = "load_crate"
    /\ IsSome(loaders[c].result)

\* A caller that returned `result` for `key`.
Returned(l, result) ==
    [l EXCEPT !.pc = "done", !.source = 0, !.pending = None, !.result = result]

\* Whether a caller that found no entry for the key lets another caller,
\* already loading it, finish, when it never does.
MustWait_never(key) == FALSE

\* Whether a caller that found no entry for the key lets another caller,
\* already loading it, finish: the cache serializes the loads of one key.
MustWait(key) == key \in loading

\* load_crate(name, version_req) is called.
StartLoad(c, name, version_req) ==
    /\ UNCHANGED not_load_vars
    /\ Arrives(c)
    /\ loaders' = [loaders EXCEPT ![c] =
                     [IdleLoader EXCEPT !.pc = "check", !.via = "load_crate",
                                        !.key = CanonicalName(name)]]
    /\ UNCHANGED <<sources, documents, loading, load_count, source_loads>>

\* traverse_to_crate_by_id(id) is called on the document a caller holds.
TraverseToCrate(c, id) ==
    /\ UNCHANGED not_load_vars
    /\ HoldsDocument(c)
    /\ LET t == traverse_to_crate_by_id(id)
       IN loaders' = [loaders EXCEPT ![c] =
            IF t.kind = "self"
            THEN Returned([IdleLoader EXCEPT !.via = "self", !.key = loaders[c].key],
                          loaders[c].result)
            ELSE IF t.kind = "none"
            THEN Returned([IdleLoader EXCEPT !.via = "unknown"], None)
            ELSE [IdleLoader EXCEPT !.pc = "check", !.via = "traverse",
                                    !.key = CanonicalName(t.name)]]
    /\ UNCHANGED <<sources, documents, loading, load_count, source_loads>>

\* DocRef<ExternalCrate>::load is called on an external crate of the
\* document a caller holds.
ExternalLoad(c, id) ==
    /\ UNCHANGED not_load_vars
    /\ HoldsDocument(c)
    /\ id \in DOMAIN external_crates
    /\ LET call == ExternalCrate_load(external_crates[id])
       IN loaders' = [loaders EXCEPT ![c] =
            [IdleLoader EXCEPT !.pc = "check", !.via = "external",
                               !.key = CanonicalName(call.name)]]
    /\ UNCHANGED <<sources, documents, loading, load_count, source_loads>>

\* load_crate looks the key up in the cache: a document or a failure is
\* returned; a key another caller is loading is waited for; else the caller
\* becomes the one that loads it.
LoadCheck(c) ==
    /\ UNCHANGED not_load_vars
    /\ loaders[c].pc = "check"
    /\ LET key == loaders[c].key
       IN IF documents[key].state # "absent"
          THEN /\ loaders' = [loaders EXCEPT ![c] = Returned(@, Cached(documents[key]))]
               /\ UNCHANGED <<loading, load_count>>
          ELSE IF MustWait(key)
          THEN /\ loaders' = [loaders EXCEPT ![c].pc = "wait", ![c].waited = TRUE]
               /\ UNCHANGED <<loading, load_count>>
          ELSE /\ loaders' = [loaders EXCEPT ![c].pc = "source", ![c].source = 1]
               /\ loading' = loading \cup {key}
               /\ load_count' = [load_count EXCEPT ![key] = @ + 1]
    /\ UNCHANGED <<sources, documents, source_loads>>

\* A caller that waited gets what the loading caller left in the cache.
LoadWait(c) ==
    /\ UNCHANGED not_load_vars
    /\ loaders[c].pc = "wait"
    /\ loaders[c].key \notin loading
    /\ loaders' = [loaders EXCEPT ![c] = Returned(@, Cached(documents[loaders[c].key]))]
    /\ UNCHANGED <<sources, documents, loading, load_count, source_loads>>

\* After a Source that cannot supply the key: the next Source in order, or,
\* after the last, the failure is cached and nothing is returned.
NextSource(c) ==
    LET key == loaders[c].key
    IN IF loaders[c].source < Len(Precedence)
       THEN /\ loaders' = [loaders EXCEPT ![c].source = @ + 1]
            /\ UNCHANGED <<documents, loading>>
       ELSE /\ documents' = [documents EXCEPT ![key] =
                               IF @.state = "absent" THEN LoadFailed ELSE @]
            /\ loading' = loading \ {key}
            /\ loaders' = [loaders EXCEPT ![c] = Returned(@, Cached(documents'[key]))]

\* The current Source is tried: Source::lookup, and Source::load of what it
\* found.
SourceLoad(c) ==
    /\ UNCHANGED not_load_vars
    /\ loaders[c].pc = "source"
    /\ LET key == loaders[c].key
           backend == Precedence[loaders[c].source]
       IN IF key \notin sources.has[backend]
          THEN /\ NextSource(c)
               /\ UNCHANGED source_loads
          ELSE /\ source_loads' = [source_loads EXCEPT ![<<backend, key>>] = @ + 1]
               /\ IF <<backend, key>> \in sources.broken
                  THEN NextSource(c)
                  ELSE /\ loaders' = [loaders EXCEPT
                            ![c].pc = "index",
                            ![c].pending = Some(NewDocument(key, backend, load_count[key]))]
                       /\ UNCHANGED <<documents, loading>>
    /\ UNCHANGED <<sources, load_count>>

\* RustdocData::build_path_index on the document just loaded.
IndexDocument(c) ==
    /\ UNCHANGED not_load_vars
    /\ loaders[c].pc = "index"
    /\ loaders' = [loaders EXCEPT
                     ![c].pc = "insert",
                     ![c].pending = Some([Unwrap(@) EXCEPT !.indexed = TRUE])]
    /\ UNCHANGED <<sources, documents, loading, load_count, source_loads>>

\* The document is inserted unless the key has an entry, and the entry the
\* cache then holds is returned.
InsertDocument(c) ==
    /\ UNCHANGED not_load_vars
    /\ loaders[c].pc = "insert"
    /\ LET key == loaders[c].key
       IN /\ documents' = [documents EXCEPT ![key] =
                             IF @.state = "absent"
                             THEN Loaded(Unwrap(loaders[c].pending)) ELSE @]
          /\ loading' = loading \ {key}
          /\ loaders' = [loaders EXCEPT ![c] = Returned(@, Cached(documents'[key]))]
    /\ UNCHANGED <<sources, load_count, source_loads>>

LoadNext ==
    \/ \E c \in LoaderIds, name \in PkgNames, version_req \in {Star} :
         StartLoad(c, name, version_req)
    \/ \E c \in LoaderIds, id \in CrateIds : TraverseToCrate(c, id)
    \/ \E c \in LoaderIds, id \in CrateIds : ExternalLoad(c, id)
    \/ \E c \in LoaderIds : LoadCheck(c)
    \/ \E c \in LoaderIds : LoadWait(c)
    \/ \E c \in LoaderIds : SourceLoad(c)
    \/ \E c \in LoaderIds : IndexDocument(c)
    \/ \E c \in LoaderIds : InsertDocument(c)

(***************************************************************************)
(* One document on its own: build_path_index and find_by_path as functions *)
(* of the export they are given.                                           *)
(***************************************************************************)

\* The fixture export with the function of each colliding pair listed before
\* the module or struct of the same name.
FunctionsFirst ==
    [Export(0) EXCEPT !.index[4].links = <<6, 5, 12, 11>>]

\* An export in which a second summary of the same kind shares a path.
SameKindTwice ==
    [Export(0) EXCEPT
        !.paths = FixturePaths
                    @@ (22 :> Summary(0, <<ExportName, "TestStruct">>, "Struct"))]

\* An export in which two kinds with one discriminator share a path.
SharedDiscriminator ==
    [Export(0) EXCEPT
        !.paths = FixturePaths
                    @@ (23 :> Summary(0, <<ExportName, "TEST_CONSTANT">>, "AssocConst"))]

\* The exports a Source may hand over: the code takes the order of a
\* module's items and the summaries as they come.
DocVariants == {Export(0), FunctionsFirst, SameKindTwice, SharedDiscriminator}

\* The items find_by_path starts from.
StartItems == DOMAIN FixtureIndex

\* The segment lists find_by_path is asked for.
FindSegments ==
    { <<>>,
      <<"both">>,
      <<"Twin">>,
      <<"Twin", "get">>,
      <<"namespace_collisions", "Twin", "get">>,
      <<"namespace_collisions", "both">>,
      <<"submodule", "SubStruct", "new">>,
      <<"ReachableViaPrivateModule", "private_module_method">>,
      <<"missing">> }

\* self.build_path_index(), the `paths` map iterating in the given order
BuildPathIndex(order) ==
    /\ UNCHANGED not_doc_vars
    /\ ~fn_index.set
    /\ fn_index' = SetTo([order |-> order,
                          path_to_id |-> build_path_index(fn_doc, order).path_to_id])
    /\ UNCHANGED <<fn_doc, fn_find>>

\* DocRef::new(.., item).find_by_path(segs)
FindByPath(start, segs) ==
    /\ UNCHANGED not_doc_vars
    /\ ~fn_find.set
    /\ fn_find' = SetTo([start |-> start, segs |-> segs,
                         result |-> find_by_path(fn_doc,
                                                 DocRefNew(fn_doc.name, start),
                                                 segs)])
    /\ UNCHANGED <<fn_doc, fn_index>>

DocNext ==
    \/ \E order \in HashOrders : BuildPathIndex(order)
    \/ \E start \in StartItems, segs \in FindSegments :
          FindByPath(start, segs)

(***************************************************************************)
(* The interactive renderer (ferretin, renderer/interactive.rs): one pass  *)
(* of the event loop draws, handles a click noted in the pass before, and  *)
(* handles at most one event.  The text typed in an input mode and the     *)
(* search scope are given with the Enter key that uses them; scrolling and *)
(* hovering are left out.                                                  *)
(***************************************************************************)

MaxHistory == 3

\* The items a document links to and go-to resolves.
TuiItems == {"A", "B"}

\* The one package the items belong to.
TuiCrate == "k"

\* HistoryEntry::Item and HistoryEntry::Search
ItemEntry(item) == [kind |-> "Item", item |-> item, crate_name |-> Some(TuiCrate)]
SearchEntry(query, scope) ==
    [kind |-> "Search", item |-> query, crate_name |-> scope]

\* What is under a position of the content area: a link to an item, an
\* area that expands a block or opens a URL, or nothing.
Positions == TuiItems \cup {"expand", "blank"}

\* render_document: the areas of every document, and their actions.
DocumentActions == TuiItems \cup {"expand"}

\* render_breadcrumb_bar: one clickable area per entry, with its position.
BreadcrumbAreas(h) == [i \in 1..Len(h) |-> i - 1]

\* What the handlers do to the history, for last_event.
NoEvent == [op |-> "none", dropped |-> 0]

\* Vec::get
HistoryGet(h, i) == IF i < Len(h) THEN Some(h[i + 1]) ELSE None

\* Vec::truncate
Truncate(h, len) == IF len < Len(h) THEN SubSeq(h, 1, len) ELSE h

\* A navigation that keeps the entries after the current one.
push_history_keep_forward(h, i, new_entry) ==
    IF h = <<>> \/ HistoryGet(h, i) # Some(new_entry)
    THEN [history |-> Append(h, new_entry),
          history_index |-> Len(h),
          event |-> [op |-> "pushed", dropped |-> 0]]
    ELSE [history |-> h, history_index |-> i,
          event |-> [op |-> "same", dropped |-> 0]]

\* The block the three navigations share: unless the new entry equals the
\* current one, truncate after the current position, push, and move there.
push_history(h, i, new_entry) ==
    IF h = <<>> \/ HistoryGet(h, i) # Some(new_entry)
    THEN [history |-> Append(Truncate(h, i + 1), new_entry),
          history_index |-> Len(Truncate(h, i + 1)),
          event |-> [op |-> "pushed", dropped |-> Len(h) - Len(Truncate(h, i + 1))]]
    ELSE [history |-> h, history_index |-> i,
          event |-> [op |-> "same", dropped |-> 0]]

\* terminal.draw: the help screen covers everything and leaves the areas of
\* the draw before in place; otherwise the document and the bar are drawn.
Draw ==
    /\ UNCHANGED not_tui_vars
    /\ loop_pc = "draw"
    /\ IF show_help
       THEN UNCHANGED <<actions, breadcrumb_clickable_areas>>
       ELSE /\ actions' = DocumentActions
            /\ breadcrumb_clickable_areas' = BreadcrumbAreas(history)
    /\ loop_pc' = "click"
    /\ UNCHANGED <<history, history_index, show_help, input_mode, mouse_enabled,
                   clicked_position, last_event>>

\* "Handle any clicked action from previous iteration"
HandleClick ==
    /\ UNCHANGED not_tui_vars
    /\ loop_pc = "click"
    /\ loop_pc' = "event"
    /\ clicked_position' = None
    /\ IF IsSome(clicked_position)
            /\ Unwrap(clicked_position) \in actions
            /\ Unwrap(clicked_position) \in TuiItems
       THEN LET new == push_history(history, history_index,
                                    ItemEntry(Unwrap(clicked_position)))
            IN /\ Len(new.history) <= MaxHistory
               /\ history' = new.history
               /\ history_index' = new.history_index
               /\ last_event' = new.event
       ELSE /\ UNCHANGED <<history, history_index>>
            /\ last_event' = NoEvent
    /\ UNCHANGED <<show_help, input_mode, mouse_enabled, actions,
                   breadcrumb_clickable_areas>>

\* A key other than Escape: it closes the help screen when that is shown,
\* else it goes to the input mode, else to the normal bindings.
OnKey(in_input, in_normal) ==
    /\ UNCHANGED not_tui_vars
    /\ loop_pc = "event"
    /\ IF show_help
       THEN /\ show_help' = FALSE
            /\ loop_pc' = "draw"
            /\ last_event' = NoEvent
            /\ UNCHANGED <<history, history_index, input_mode, mouse_enabled,
                           clicked_position, actions, breadcrumb_clickable_areas>>
       ELSE IF input_mode # "Normal" THEN in_input ELSE in_normal

\* A handler that leaves everything the model holds as it is.
Ignored ==
    /\ loop_pc' = "draw"
    /\ last_event' = NoEvent
    /\ UNCHANGED <<history, history_index, show_help, input_mode, mouse_enabled,
                   clicked_position, actions, breadcrumb_clickable_areas>>

\* event::poll timed out, or an event that scrolls or moves the pointer.
OtherEvent ==
    /\ UNCHANGED not_tui_vars
    /\ loop_pc = "event"
    /\ Ignored

\* KeyCode::Esc
KeyEsc ==
    /\ UNCHANGED not_tui_vars
    /\ loop_pc = "event"
    /\ last_event' = NoEvent
    /\ IF show_help
       THEN /\ show_help' = FALSE /\ loop_pc' = "draw"
            /\ UNCHANGED input_mode
       ELSE IF input_mode # "Normal"
       THEN /\ input_mode' = "Normal" /\ loop_pc' = "draw"
            /\ UNCHANGED show_help
       ELSE /\ loop_pc' = "quit"
            /\ UNCHANGED <<show_help, input_mode>>
    /\ UNCHANGED <<history, history_index, mouse_enabled, clicked_position,
                   actions, breadcrumb_clickable_areas>>

\* 'g' and 's': enter an input mode (a character of the text in one).
KeyMode(mode) ==
    OnKey(Ignored,
          /\ input_mode' = mode
          /\ loop_pc' = "draw"
          /\ last_event' = NoEvent
          /\ UNCHANGED <<history, history_index, show_help, mouse_enabled,
                         clicked_position, actions, breadcrumb_clickable_areas>>)

\* '?' and 'h'
KeyHelp ==
    OnKey(Ignored,
          /\ show_help' = TRUE
          /\ loop_pc' = "draw"
          /\ last_event' = NoEvent
          /\ UNCHANGED <<history, history_index, input_mode, mouse_enabled,
                         clicked_position, actions, breadcrumb_clickable_areas>>)

\* 'm'
KeyMouse ==
    OnKey(Ignored,
          /\ mouse_enabled' = ~mouse_enabled
          /\ loop_pc' = "draw"
          /\ last_event' = NoEvent
          /\ UNCHANGED <<history, history_index, show_help, input_mode,
                         clicked_position, actions, breadcrumb_clickable_areas>>)

\* KeyCode::Enter in GoTo mode, the text resolving to an item or to nothing.
GoToEnter(resolved) ==
    /\ input_mode' = "Normal"
    /\ loop_pc' = "draw"
    /\ IF IsSome(resolved)
       THEN LET new == push_history(history, history_index,
                                    ItemEntry(Unwrap(resolved)))
            IN /\ Len(new.history) <= MaxHistory
               /\ history' = new.history
               /\ history_index' = new.history_index
               /\ last_event' = new.event
       ELSE /\ UNCHANGED <<history, history_index>>
            /\ last_event' = NoEvent
    /\ UNCHANGED <<show_help, mouse_enabled, clicked_position, actions,
                   breadcrumb_clickable_areas>>

\* The package a search is limited to: none for all packages, else the
\* package of the current entry.
SearchCrate(search_all_crates) ==
    IF search_all_crates \/ ~IsSome(HistoryGet(history, history_index)) THEN None
    ELSE Unwrap(HistoryGet(history, history_index)).crate_name

\* KeyCode::Enter in Search mode.
SearchEnter(query, search_all_crates, is_error) ==
    /\ input_mode' = "Normal"
    /\ loop_pc' = "draw"
    /\ IF ~is_error
       THEN LET new == push_history(history, history_index,
                          SearchEntry(query, SearchCrate(search_all_crates)))
            IN /\ Len(new.history) <= MaxHistory
               /\ history' = new.history
               /\ history_index' = new.history_index
               /\ last_event' = new.event
       ELSE /\ UNCHANGED <<history, history_index>>
            /\ last_event' = NoEvent
    /\ UNCHANGED <<show_help, mouse_enabled, clicked_position, actions,
                   breadcrumb_clickable_areas>>

\* KeyCode::Enter
KeyEnter(resolved, search_all_crates, is_error) ==
    OnKey(IF input_mode = "GoTo" THEN GoToEnter(resolved)
          ELSE SearchEnter("q", search_all_crates, is_error),
          Ignored)

\* KeyCode::Left
KeyLeft ==
    OnKey(Ignored,
          /\ IF history_index > 0
             THEN /\ history_index' = history_index - 1
                  /\ last_event' = [op |-> "back", dropped |-> 0]
             ELSE /\ UNCHANGED history_index
                  /\ last_event' = [op |-> "at_beginning", dropped |-> 0]
          /\ loop_pc' = "draw"
          /\ UNCHANGED <<history, show_help, input_mode, mouse_enabled,
                         clicked_position, actions, breadcrumb_clickable_areas>>)

\* KeyCode::Right
KeyRight ==
    OnKey(Ignored,
          /\ IF history_index + 1 < Len(history)
             THEN /\ history_index' = history_index + 1
                  /\ last_event' = [op |-> "forward", dropped |-> 0]
             ELSE /\ UNCHANGED history_index
                  /\ last_event' = [op |-> "at_end", dropped |-> 0]
          /\ loop_pc' = "draw"
          /\ UNCHANGED <<history, show_help, input_mode, mouse_enabled,
                         clicked_position, actions, breadcrumb_clickable_areas>>)

\* MouseEventKind::Down in the content area
MouseDownContent(position) ==
    /\ UNCHANGED not_tui_vars
    /\ loop_pc = "event"
    /\ mouse_enabled
    /\ clicked_position' = Some(position)
    /\ loop_pc' = "draw"
    /\ last_event' = NoEvent
    /\ UNCHANGED <<history, history_index, show_help, input_mode, mouse_enabled,
                   actions, breadcrumb_clickable_areas>>

\* MouseEventKind::Down on an area of the breadcrumb bar: history_index is
\* set to the position the area was drawn for and history is indexed with
\* it, which aborts when the history no longer has that position.
MouseDownBreadcrumb(area) ==
    /\ UNCHANGED not_tui_vars
    /\ loop_pc = "event"
    /\ mouse_enabled
    /\ area \in 1..Len(breadcrumb_clickable_areas)
    /\ history_index' = breadcrumb_clickable_areas[area]
    /\ loop_pc' = IF history_index' < Len(history) THEN "draw" ELSE "panicked"
    /\ last_event' = [op |-> "jumped", dropped |-> 0]
    /\ UNCHANGED <<history, show_help, input_mode, mouse_enabled,
                   clicked_position, actions, breadcrumb_clickable_areas>>

TuiNext ==
    \/ Draw
    \/ HandleClick
    \/ OtherEvent
    \/ KeyEsc
    \/ \E mode \in {"GoTo", "Search"} : KeyMode(mode)
    \/ KeyHelp
    \/ KeyMouse
    \/ \E resolved \in {None} \cup {Some(x) : x \in TuiItems},
          search_all_crates \in BOOLEAN, is_error \in BOOLEAN :
          KeyEnter(resolved, search_all_crates, is_error)
    \/ KeyLeft
    \/ KeyRight
    \/ \E position \in Positions : MouseDownContent(position)
    \/ \E area \in 1..MaxHistory : MouseDownBreadcrumb(area)

(***************************************************************************)
(* Specifications: one per machine; the variables of the other machines    *)
(* stay as they start.                                                     *)
(***************************************************************************)

\* A Navigator with nothing loaded and no request made.
PathInit ==
    /\ working_set = None
    /\ cur = None
    /\ req = None
    /\ origin = "none"
    /\ kept = None
    /\ disc = Unset
    /\ back = Unset
    /\ path_panicked = FALSE
    /\ name_a = <<>>
    /\ name_b = <<>>
    /\ name_cmp = [set |-> FALSE, eq |-> FALSE, hash_a |-> <<>>, hash_b |-> <<>>]
    /\ name_map = {}
    /\ name_found = Unset
    /\ name_ord = Unset
    /\ search_indexes = {}
    /\ calls = [c \in CallIds |-> IdleCall]
    /\ tasks = [c \in CallIds |-> <<>>]
    /\ attempts = [n \in SearchNames |-> 0]
    /\ cli_input = <<<<>>, <<>>>>
    /\ cli_limit = 0
    /\ cli_pc = "idle"
    /\ cli_next = 0
    /\ all_results = <<>>
    /\ cumulative_score = 0
    /\ prev_score = 0
    /\ visited = <<>>
    /\ history = <<>>
    /\ history_index = 0
    /\ show_help = FALSE
    /\ input_mode = "Normal"
    /\ mouse_enabled = TRUE
    /\ clicked_position = None
    /\ actions = {}
    /\ breadcrumb_clickable_areas = <<>>
    /\ loop_pc = "off"
    /\ last_event = NoEvent
    /\ fn_doc = Export(0)
    /\ fn_index = Unset
    /\ fn_find = Unset
    /\ sources = [has |-> [local |-> {}, std |-> {}, docsrs |-> {}], broken |-> {}]
    /\ documents = [k \in PkgNames |-> Absent]
    /\ loading = {}
    /\ loaders = [c \in LoaderIds |-> IdleLoader]
    /\ load_count = [k \in PkgNames |-> 0]
    /\ source_loads = [p \in Backends \X PkgNames |-> 0]

\* Two package identities, not yet compared, and an empty map.
NameInit ==
    /\ name_a \in NamesUpTo(MaxNameLen)
    /\ name_b \in NamesUpTo(MaxNameLen)
    /\ name_cmp = [set |-> FALSE, eq |-> FALSE, hash_a |-> <<>>, hash_b |-> <<>>]
    /\ name_map = {}
    /\ name_found = Unset
    /\ name_ord = Unset
    /\ working_set = None
    /\ cur = None
    /\ req = None
    /\ origin = "none"
    /\ kept = None
    /\ disc = Unset
    /\ back = Unset
    /\ path_panicked = FALSE
    /\ search_indexes = {}
    /\ calls = [c \in CallIds |-> IdleCall]
    /\ tasks = [c \in CallIds |-> <<>>]
    /\ attempts = [n \in SearchNames |-> 0]
    /\ cli_input = <<<<>>, <<>>>>
    /\ cli_limit = 0
    /\ cli_pc = "idle"
    /\ cli_next = 0
    /\ all_results = <<>>
    /\ cumulative_score = 0
    /\ prev_score = 0
    /\ visited = <<>>
    /\ history = <<>>
    /\ history_index = 0
    /\ show_help = FALSE
    /\ input_mode = "Normal"
    /\ mouse_enabled = TRUE
    /\ clicked_position = None
    /\ actions = {}
    /\ breadcrumb_clickable_areas = <<>>
    /\ loop_pc = "off"
    /\ last_event = NoEvent
    /\ fn_doc = Export(0)
    /\ fn_index = Unset
    /\ fn_find = Unset
    /\ sources = [has |-> [local |-> {}, std |-> {}, docsrs |-> {}], broken |-> {}]
    /\ documents = [k \in PkgNames |-> Absent]
    /\ loading = {}
    /\ loaders = [c \in LoaderIds |-> IdleLoader]
    /\ load_count = [k \in PkgNames |-> 0]
    /\ source_loads = [p \in Backends \X PkgNames |-> 0]

\* A Navigator with an empty search-index cache and no search made.
SearchInit ==
    /\ search_indexes = {}
    /\ calls = [c \in CallIds |-> IdleCall]
    /\ tasks = [c \in CallIds |-> <<>>]
    /\ attempts = [n \in SearchNames |-> 0]
    /\ working_set = None
    /\ cur = None
    /\ req = None
    /\ origin = "none"
    /\ kept = None
    /\ disc = Unset
    /\ back = Unset
    /\ path_panicked = FALSE
    /\ name_a = <<>>
    /\ name_b = <<>>
    /\ name_cmp = [set |-> FALSE, eq |-> FALSE, hash_a |-> <<>>, hash_b |-> <<>>]
    /\ name_map = {}
    /\ name_found = Unset
    /\ name_ord = Unset
    /\ cli_input = <<<<>>, <<>>>>
    /\ cli_limit = 0
    /\ cli_pc = "idle"
    /\ cli_next = 0
    /\ all_results = <<>>
    /\ cumulative_score = 0
    /\ prev_score = 0
    /\ visited = <<>>
    /\ history = <<>>
    /\ history_index = 0
    /\ show_help = FALSE
    /\ input_mode = "Normal"
    /\ mouse_enabled = TRUE
    /\ clicked_position = None
    /\ actions = {}
    /\ breadcrumb_clickable_areas = <<>>
    /\ loop_pc = "off"
    /\ last_event = NoEvent
    /\ fn_doc = Export(0)
    /\ fn_index = Unset
    /\ fn_find = Unset
    /\ sources = [has |-> [local |-> {}, std |-> {}, docsrs |-> {}], broken |-> {}]
    /\ documents = [k \in PkgNames |-> Absent]
    /\ loading = {}
    /\ loaders = [c \in LoaderIds |-> IdleLoader]
    /\ load_count = [k \in PkgNames |-> 0]
    /\ source_loads = [p \in Backends \X PkgNames |-> 0]

\* The search command starts: the indexes' answers and the limit are given.
CliInit ==
    /\ cli_input \in CliInputs
    /\ cli_limit \in CliLimits
    /\ cli_pc = "collect"
    /\ cli_next = 1
    /\ all_results = <<>>
    /\ cumulative_score = 0
    /\ prev_score = 0
    /\ visited = <<>>
    /\ working_set = None
    /\ cur = None
    /\ req = None
    /\ origin = "none"
    /\ kept = None
    /\ disc = Unset
    /\ back = Unset
    /\ path_panicked = FALSE
    /\ name_a = <<>>
    /\ name_b = <<>>
    /\ name_cmp = [set |-> FALSE, eq |-> FALSE, hash_a |-> <<>>, hash_b |-> <<>>]
    /\ name_map = {}
    /\ name_found = Unset
    /\ name_ord = Unset
    /\ search_indexes = {}
    /\ calls = [c \in CallIds |-> IdleCall]
    /\ tasks = [c \in CallIds |-> <<>>]
    /\ attempts = [n \in SearchNames |-> 0]
    /\ history = <<>>
    /\ history_index = 0
    /\ show_help = FALSE
    /\ input_mode = "Normal"
    /\ mouse_enabled = TRUE
    /\ clicked_position = None
    /\ actions = {}
    /\ breadcrumb_clickable_areas = <<>>
    /\ loop_pc = "off"
    /\ last_event = NoEvent
    /\ fn_doc = Export(0)
    /\ fn_index = Unset
    /\ fn_find = Unset
    /\ sources = [has |-> [local |-> {}, std |-> {}, docsrs |-> {}], broken |-> {}]
    /\ documents = [k \in PkgNames |-> Absent]
    /\ loading = {}
    /\ loaders = [c \in LoaderIds |-> IdleLoader]
    /\ load_count = [k \in PkgNames |-> 0]
    /\ source_loads = [p \in Backends \X PkgNames |-> 0]

\* render_interactive starts, with or without an initial item.
TuiInit ==
    /\ history \in {<<>>} \cup {<<ItemEntry(x)>> : x \in TuiItems}
    /\ history_index = 0
    /\ show_help = FALSE
    /\ input_mode = "Normal"
    /\ mouse_enabled = TRUE
    /\ clicked_position = None
    /\ actions = {}
    /\ breadcrumb_clickable_areas = <<>>
    /\ loop_pc = "draw"
    /\ last_event = NoEvent
    /\ working_set = None
    /\ cur = None
    /\ req = None
    /\ origin = "none"
    /\ kept = None
    /\ disc = Unset
    /\ back = Unset
    /\ path_panicked = FALSE
    /\ name_a = <<>>
    /\ name_b = <<>>
    /\ name_cmp = [set |-> FALSE, eq |-> FALSE, hash_a |-> <<>>, hash_b |-> <<>>]
    /\ name_map = {}
    /\ name_found = Unset
    /\ name_ord = Unset
    /\ search_indexes = {}
    /\ calls = [c \in CallIds |-> IdleCall]
    /\ tasks = [c \in CallIds |-> <<>>]
    /\ attempts = [n \in SearchNames |-> 0]
    /\ cli_input = <<<<>>, <<>>>>
    /\ cli_limit = 0
    /\ cli_pc = "idle"
    /\ cli_next = 0
    /\ all_results = <<>>
    /\ cumulative_score = 0
    /\ prev_score = 0
    /\ visited = <<>>
    /\ fn_doc = Export(0)
    /\ fn_index = Unset
    /\ fn_find = Unset
    /\ sources = [has |-> [local |-> {}, std |-> {}, docsrs |-> {}], broken |-> {}]
    /\ documents = [k \in PkgNames |-> Absent]
    /\ loading = {}
    /\ loaders = [c \in LoaderIds |-> IdleLoader]
    /\ load_count = [k \in PkgNames |-> 0]
    /\ source_loads = [p \in Backends \X PkgNames |-> 0]

\* An export as a Source produced it, nothing computed from it yet.
DocInit ==
    /\ fn_doc \in DocVariants
    /\ fn_index = Unset
    /\ fn_find = Unset
    /\ working_set = None
    /\ cur = None
    /\ req = None
    /\ origin = "none"
    /\ kept = None
    /\ disc = Unset
    /\ back = Unset
    /\ path_panicked = FALSE
    /\ name_a = <<>>
    /\ name_b = <<>>
    /\ name_cmp = [set |-> FALSE, eq |-> FALSE, hash_a |-> <<>>, hash_b |-> <<>>]
    /\ name_map = {}
    /\ name_found = Unset
    /\ name_ord = Unset
    /\ search_indexes = {}
    /\ calls = [c \in CallIds |-> IdleCall]
    /\ tasks = [c \in CallIds |-> <<>>]
    /\ attempts = [n \in SearchNames |-> 0]
    /\ cli_input = <<<<>>, <<>>>>
    /\ cli_limit = 0
    /\ cli_pc = "idle"
    /\ cli_next = 0
    /\ all_results = <<>>
    /\ cumulative_score = 0
    /\ prev_score = 0
    /\ visited = <<>>
    /\ history = <<>>
    /\ history_index = 0
    /\ show_help = FALSE
    /\ input_mode = "Normal"
    /\ mouse_enabled = TRUE
    /\ clicked_position = None
    /\ actions = {}
    /\ breadcrumb_clickable_areas = <<>>
    /\ loop_pc = "off"
    /\ last_event = NoEvent
    /\ sources = [has |-> [local |-> {}, std |-> {}, docsrs |-> {}], broken |-> {}]
    /\ documents = [k \in PkgNames |-> Absent]
    /\ loading = {}
    /\ loaders = [c \in LoaderIds |-> IdleLoader]
    /\ load_count = [k \in PkgNames |-> 0]
    /\ source_loads = [p \in Backends \X PkgNames |-> 0]

\* A Navigator with its Sources configured and nothing loaded.
LoadInit ==
    /\ sources \in Environments
    /\ documents = [k \in PkgNames |-> Absent]
    /\ loading = {}
    /\ loaders = [c \in LoaderIds |-> IdleLoader]
    /\ load_count = [k \in PkgNames |-> 0]
    /\ source_loads = [p \in Backends \X PkgNames |-> 0]
    /\ working_set = None
    /\ cur = None
    /\ req = None
    /\ origin = "none"
    /\ kept = None
    /\ disc = Unset
    /\ back = Unset
    /\ path_panicked = FALSE
    /\ name_a = <<>>
    /\ name_b = <<>>
    /\ name_cmp = [set |-> FALSE, eq |-> FALSE, hash_a |-> <<>>, hash_b |-> <<>>]
    /\ name_map = {}
    /\ name_found = Unset
    /\ name_ord = Unset
    /\ search_indexes = {}
    /\ calls = [c \in CallIds |-> IdleCall]
    /\ tasks = [c \in CallIds |-> <<>>]
    /\ attempts = [n \in SearchNames |-> 0]
    /\ cli_input = <<<<>>, <<>>>>
    /\ cli_limit = 0
    /\ cli_pc = "idle"
    /\ cli_next = 0
    /\ all_results = <<>>
    /\ cumulative_score = 0
    /\ prev_score = 0
    /\ visited = <<>>
    /\ history = <<>>
    /\ history_index = 0
    /\ show_help = FALSE
    /\ input_mode = "Normal"
    /\ mouse_enabled = TRUE
    /\ clicked_position = None
    /\ actions = {}
    /\ breadcrumb_clickable_areas = <<>>
    /\ loop_pc = "off"
    /\ last_event = NoEvent
    /\ fn_doc = Export(0)
    /\ fn_index = Unset
    /\ fn_find = Unset

SpecPath == PathInit /\ [][PathNext]_vars

SpecName == NameInit /\ [][NameNext]_vars

SpecSearch == SearchInit /\ [][SearchNext]_vars

SpecCli == CliInit /\ [][CliNext]_vars

SpecTui == TuiInit /\ [][TuiNext]_vars

SpecDoc == DocInit /\ [][DocNext]_vars

SpecLoad == LoadInit /\ [][LoadNext]_vars

(***************************************************************************)
(* Claims about path resolution.                                           *)
(***************************************************************************)

\* The loaded document, and whether its root item exists.
Doc == Unwrap(working_set)
WellFormed == IsSome(working_set) /\ ~RootItemPanics(Doc)

\* C1 (as claimed): round-trip law.  For every handle resolve_path returned,
\* discriminated_path gives a path, and resolving that path gives a handle
\* equal to the first one.
C1_RoundTripLaw ==
    (origin = "resolve_path" /\ IsSome(cur)) =>
        /\ disc.set => IsSome(disc.val)
        /\ back.set => /\ IsSome(back.val)
                       /\ DocRefEq(Unwrap(back.val), Unwrap(cur))

\* The same law for every handle but the one of the package root module.
C1_RoundTripBelowRoot ==
    (origin = "resolve_path" /\ IsSome(cur) /\ Unwrap(cur).item # Doc.root) =>
        /\ disc.set => IsSome(disc.val)
        /\ back.set => /\ IsSome(back.val)
                       /\ DocRefEq(Unwrap(back.val), Unwrap(cur))

\* The root module was resolved, its discriminated path computed and
\* resolved again.
C1_RootRoundTripped ==
    /\ origin = "resolve_path" /\ IsSome(cur)
    /\ Unwrap(cur).item = Doc.root
    /\ back.set

\* The two discriminated spellings of the colliding path, for a package name.
ModBoth(pkg) == <<pkg, Sep, "namespace_collisions", Sep, "mod", At, "both">>
FnBoth(pkg) == <<pkg, Sep, "namespace_collisions", Sep, "fn", At, "both">>

\* C2: discriminator disambiguation.  With a module and a function at
\* pkg::namespace_collisions::both, resolving "...::mod@both" gives a handle
\* of kind Module, resolving "...::fn@both" a handle of kind Function, and
\* the two handles are unequal.
C2_DiscriminatorDisambiguation ==
    \A pkg \in {"crate", FixtureName} :
        /\ (origin = "resolve_path" /\ req = Some(ModBoth(pkg))) =>
              IsSome(cur) /\ KindOf(Doc, Unwrap(cur)) = "Module"
        /\ (origin = "resolve_path" /\ req = Some(FnBoth(pkg))) =>
              IsSome(cur) /\ KindOf(Doc, Unwrap(cur)) = "Function"
        /\ (/\ origin = "resolve_path" /\ req = Some(FnBoth(pkg))
            /\ IsSome(kept) /\ Unwrap(kept).req = ModBoth(pkg)) =>
              IsSome(cur) /\ ~DocRefEq(Unwrap(kept).h, Unwrap(cur))

\* Both spellings have been resolved, the module first.
C2_BothResolved ==
    /\ origin = "resolve_path" /\ req = Some(FnBoth("crate")) /\ IsSome(cur)
    /\ IsSome(kept) /\ Unwrap(kept).req = ModBoth("crate")
    /\ WellFormed

\* The public re-export path and the private-module path of the struct that
\* lives in the private module.
ViaReexport == <<"crate", Sep, "ReachableViaPrivateModule">>
ViaPrivatePath ==
    <<FixtureName, Sep, "private_detail", Sep, "ReachableViaPrivateModule">>

\* C3: fallback reachability.  The struct resolves by its public re-export
\* path (in a document whose root item exists) and by its path through the
\* private module, and both resolutions give equal handles.
C3_FallbackReachability ==
    /\ (origin = "resolve_path" /\ req = Some(ViaReexport) /\ WellFormed) =>
          IsSome(cur) /\ KindOf(Doc, Unwrap(cur)) = "Struct"
    /\ (origin = "resolve_path" /\ req = Some(ViaPrivatePath)) =>
          IsSome(cur) /\ KindOf(Doc, Unwrap(cur)) = "Struct"
    /\ (/\ origin = "resolve_path" /\ req = Some(ViaPrivatePath)
        /\ IsSome(kept) /\ Unwrap(kept).req = ViaReexport) =>
          IsSome(cur) /\ DocRefEq(Unwrap(kept).h, Unwrap(cur))

\* The struct has been resolved by both paths, the re-export first.
C3_BothPathsResolved ==
    /\ origin = "resolve_path" /\ req = Some(ViaPrivatePath) /\ IsSome(cur)
    /\ IsSome(kept) /\ Unwrap(kept).req = ViaReexport
    /\ WellFormed

\* The ids of the local items that share the summary path of `id`.
SamePath(id) ==
    {o \in DOMAIN Doc.paths :
        Doc.paths[o].crate_id = 0 /\ Doc.paths[o].path = Doc.paths[id].path}

\* "a::b::kind@name" for a summary path <<pkg, a, b, name>> and a kind.
Discriminated(path, kind) ==
    Join(SubSeq(path, 2, Len(path) - 1))
      \o (IF Len(path) > 2 THEN <<Sep>> ELSE <<>>)
      \o <<kind_discriminator(kind), At, path[Len(path)]>>

C5_PathIndexEntries ==
    IsSome(working_set) =>
        \A id \in DOMAIN Doc.paths :
            (Doc.paths[id].crate_id = 0 /\ Len(Doc.paths[id].path) >= 2) =>
                LET path == Doc.paths[id].path
                    plain == Join(SubSeq(path, 2, Len(path)))
                IN /\ Discriminated(path, Doc.paths[id].kind) \in DOMAIN Doc.path_to_id
                   /\ plain \in DOMAIN Doc.path_to_id =>
                        /\ \A o \in SamePath(id) :
                              Doc.paths[o].kind = Doc.paths[id].kind
                        /\ Doc.path_to_id[plain] = id

\* A document with colliding and non-colliding paths has been indexed.
C5_IndexBuilt ==
    /\ IsSome(working_set)
    /\ <<"namespace_collisions", Sep, "fn", At, "both">> \in DOMAIN Doc.path_to_id
    /\ <<"namespace_collisions", Sep, "both">> \notin DOMAIN Doc.path_to_id
    /\ <<"submodule", Sep, "SubStruct">> \in DOMAIN Doc.path_to_id


(***************************************************************************)
(* Package identity.                                                       *)
(***************************************************************************)

\* The two strings are identical once '-' and '_' count as one character.
SameUpToSeparator(a, b) ==
    /\ Len(a) = Len(b)
    /\ \A i \in 1..Len(a) : \/ a[i] = b[i]
                            \/ {a[i], b[i]} = {"-", "_"}

\* C6: two package identities are equal exactly when their strings are
\* identical once '-' and '_' are treated as the same character (letter case
\* still counts); equal identities hash alike; and a map keyed by identity
\* finds under one spelling what was inserted under the other, and nothing
\* under a different identity.
C6_SeparatorInsensitivity ==
    /\ name_cmp.set =>
          /\ name_cmp.eq <=> SameUpToSeparator(name_a, name_b)
          /\ name_cmp.eq => name_cmp.hash_a = name_cmp.hash_b
    /\ name_found.set =>
          (IsSome(name_found.val) <=> SameUpToSeparator(name_a, name_b))

\* C6 witness: two different spellings compared equal, and the entry inserted
\* under one was found under the other.
C6_OtherSpellingFound ==
    /\ name_a # name_b
    /\ name_cmp.set /\ name_cmp.eq
    /\ name_found.set /\ IsSome(name_found.val)

(***************************************************************************)
(* Search.                                                                 *)
(***************************************************************************)

NameOfTask(c, i) == calls[c].names[i]
KeyOfTask(c, i) == CanonicalName(NameOfTask(c, i))
TaskIds == {ci \in CallIds \X (1..MaxTasks) : ci[2] <= Len(tasks[ci[1]])}

\* The cache holds a failure for the key.
FailureCached(map, key) == MapGet(map, key) = Some(None)

\* The load/build attempts made for the key, under any spelling.
KeyAttempts(key) ==
    LET same == {n \in SearchNames : CrateNameEq(CanonicalName(n), key)}
        names == CHOOSE q \in [1..Cardinality(same) -> same] :
                    \A n \in same : \E i \in DOMAIN q : q[i] = n
        sum[i \in 0..Len(names)] ==
            IF i = 0 THEN 0 ELSE sum[i - 1] + attempts[names[i]]
    IN sum[Len(names)]

\* C7: a failed build is recorded in the cache (the key has an entry as soon
\* as the failing request returns, and that entry is the failure unless the
\* key already had one); a recorded failure stays for good; and every request
\* that looks the key up while the failure is recorded returns the cached
\* failure (no suggestions) without another load/build attempt.
C7_PermanentFailureCaching ==
    [][/\ \A n \in SearchNames :
             FailureCached(search_indexes, n) => FailureCached(search_indexes', n)
       /\ \A ci \in TaskIds :
             LET c == ci[1]
                 i == ci[2]
                 before == tasks[c][i]
                 after == tasks'[c][i]
             IN /\ ( /\ before.pc = "check"
                     /\ FailureCached(search_indexes, KeyOfTask(c, i))
                     /\ after # before )
                   => /\ after = [pc |-> "done", result |-> Err(<<>>)]
                      /\ attempts' = attempts
                /\ ( /\ before.pc = "load"
                     /\ after.pc = "done"
                     /\ ~after.result.ok )
                   => /\ IsSome(MapGet(search_indexes', KeyOfTask(c, i)))
                      /\ ~IsSome(MapGet(search_indexes, KeyOfTask(c, i)))
                            => FailureCached(search_indexes', KeyOfTask(c, i))
      ]_vars

\* C7 witness: a build failed once, and a later request for the package under
\* the other spelling was answered from the cached failure: one attempt, two
\* finished requests.
C7_ServedFromCachedFailure ==
    /\ calls[1].state = "done" /\ calls[1].names = << <<"a", "-", "b">> >>
    /\ calls[1].result = Err(<< <<"a", "-", "b">> >>)
    /\ calls[2].state = "done" /\ calls[2].names = << <<"a", "_", "b">> >>
    /\ calls[2].result = Err(<<>>)
    /\ KeyAttempts(<<"a", "-", "b">>) = 1

\* C8: whatever the interleaving of the search tasks, at most one index
\* load/build is performed per canonical package key, and every caller that
\* got an index for the key got the same one.
C8_SingleBuildPerKey ==
    /\ \A n \in SearchNames : KeyAttempts(CanonicalName(n)) <= 1
    /\ \A ci \in TaskIds, dj \in TaskIds :
          ( /\ tasks[ci[1]][ci[2]].pc = "done"
            /\ tasks[dj[1]][dj[2]].pc = "done"
            /\ CrateNameEq(KeyOfTask(ci[1], ci[2]), KeyOfTask(dj[1], dj[2])) )
          => tasks[ci[1]][ci[2]].result.ok = tasks[dj[1]][dj[2]].result.ok

\* C9: resolution and search never abort: get_path on a document whose root
\* id is absent from its item graph returns, and so does every search task,
\* also when its insert comes after another caller cached a failure.
C9_NeverPanics ==
    /\ ~path_panicked
    /\ \A c \in CallIds : calls[c].state # "panicked"
    /\ \A ci \in TaskIds : tasks[ci[1]][ci[2]].pc # "panicked"

\* The requests of a finished call that failed to produce an index.
Failed(c) == {i \in 1..Len(tasks[c]) : ~tasks[c][i].result.ok}

\* The hits of the requests that produced one, in request order.
RECURSIVE MergedFrom(_, _)
MergedFrom(c, i) ==
    IF i > Len(tasks[c]) THEN <<>>
    ELSE IF tasks[c][i].result.ok
         THEN <<[crate |-> NameOfTask(c, i), index |-> tasks[c][i].result.val]>>
                 \o MergedFrom(c, i + 1)
         ELSE MergedFrom(c, i + 1)

\* C10: a search over a non-empty package list that returns, returns an
\* error exactly when every requested package failed to produce an index;
\* the error is the suggestion list of the first failing package in request
\* order; and when some package succeeded the result is Ok with the merged
\* results of the successful packages.
C10_SearchOutcome ==
    \A c \in CallIds :
       (calls[c].state = "done" /\ calls[c].names # <<>>) =>
          /\ ~calls[c].result.ok <=> Failed(c) = 1..Len(tasks[c])
          /\ ~calls[c].result.ok =>
                calls[c].result.sugg = tasks[c][Min(Failed(c))].result.sugg
          /\ calls[c].result.ok =>
                /\ calls[c].result.val = MergedFrom(c, 1)
                /\ calls[c].result.val # <<>>

\* C10 witness: one call over two packages returned Ok although its first
\* package failed.
C10_PartialFailureNotFatal ==
    \E c \in CallIds :
       /\ calls[c].state = "done"
       /\ Len(calls[c].names) = 2
       /\ Failed(c) = {1}
       /\ calls[c].result.ok


\* C11: a search over an empty package list returns an empty Ok result for
\* any query, starts no task, makes no load/build attempt and leaves the
\* search-index cache as it was.
C11_EmptyListIsEmptyOk ==
    [][\A c \in CallIds :
          ( /\ calls[c].state = "idle"
            /\ calls'[c].state # "idle"
            /\ calls'[c].names = <<>> )
          => /\ calls'[c].state = "done"
             /\ calls'[c].result = [ok |-> TRUE, val |-> <<>>, sugg |-> <<>>]
             /\ tasks' = tasks
             /\ attempts' = attempts
             /\ search_indexes' = search_indexes
      ]_vars

\* C11 witness: a search over an empty list has returned while the cache
\* held an entry.
C11_EmptyListSearched ==
    \E c \in CallIds :
       /\ calls[c].state = "done"
       /\ calls[c].names = <<>>
       /\ search_indexes # {}


(***************************************************************************)
(* The search command.                                                     *)
(***************************************************************************)

\* When a triple was pushed: the place of its crate, then its place among
\* the crate's results.
PushedBefore(r, q) ==
    LET place(x) == CHOOSE k \in 1..Len(CliCrates) : CliCrates[k] = x.crate
    IN \/ place(r) < place(q)
       \/ place(r) = place(q) /\ r.id < q.id

\* C12: the merged results are ordered by descending score: no result has a
\* lower score than a later one, and of two results with the same score the
\* one pushed first comes first.
C12_SortedByScore ==
    cli_pc \in {"display", "done", "exit"} =>
        \A i \in 1..Len(all_results), j \in 1..Len(all_results) :
            i < j =>
               /\ all_results[i].score >= all_results[j].score
               /\ all_results[i].score = all_results[j].score
                     => PushedBefore(all_results[i], all_results[j])

\* C12 witness: results of two crates were merged that had to be reordered
\* and that hold a tie between the crates.
C12_MergedWithTie ==
    /\ cli_pc = "display"
    /\ cli_input = << <<2, 100>>, <<100>> >>
    /\ Len(all_results) = 3

\* The scores of the results that were printed.
Shown ==
    LET found(v) == v.found
        printed == SelectSeq(visited, found)
    IN [k \in 1..Len(printed) |-> printed[k].score]

\* The scores of the ranked list.
Ranked == [k \in 1..Len(all_results) |-> all_results[k].score]

\* C13: for the ranked scores [100, 96, 40, 38, 2], min-results 1 and limit
\* 10, with every item found, the displayed results are exactly [100, 96].
C13_EarlyStopFixture ==
    ( /\ cli_pc = "done"
      /\ Ranked = EarlyStopFixture
      /\ cli_limit = 10
      /\ \A k \in 1..Len(visited) : visited[k].found )
    => Shown = <<100, 96>>

RECURSIVE CountAt(_)
CountAt(str) ==
    IF str = <<>> THEN 0
    ELSE (IF Head(str) = At THEN 1 ELSE 0) + CountAt(Tail(str))

\* C17: for an item whose summary path is [p0, s1, ..., sn] with n >= 1,
\* discriminated_path is "<document name>::s1::...::s(n-1)::<kind>@sn": it
\* starts with the Navigator's name of the document, not with p0, and the
\* only discriminator is on the last segment.
C17_SummaryPathFormat ==
    ( /\ disc.set /\ IsSome(cur)
      /\ Unwrap(cur).item \in DOMAIN Doc.paths
      /\ Len(Doc.paths[Unwrap(cur).item].path) >= 2 )
    => LET summary == Doc.paths[Unwrap(cur).item]
           n == Len(summary.path)
           middle == [k \in 1..(n - 2) |-> summary.path[k + 1]]
           expected == <<FixtureName, Sep>>
                         \o (IF middle = <<>> THEN <<>> ELSE Join(middle) \o <<Sep>>)
                         \o <<kind_discriminator(summary.kind), At, summary.path[n]>>
       IN /\ disc.val = Some(expected)
          /\ Unwrap(disc.val)[1] # summary.path[1]
          /\ CountAt(Unwrap(disc.val)) = 1
          /\ Unwrap(disc.val)[Len(Unwrap(disc.val)) - 1] = At

\* C17 witness: the path of a struct two modules deep was computed.
C17_NestedStructPath ==
    /\ disc.set /\ IsSome(cur)
    /\ Unwrap(cur).item = 3
    /\ disc.val = Some(<<FixtureName, Sep, "submodule", Sep, "struct", At, "SubStruct">>)

\* Whether a path string has the canonical package name first and a
\* discriminator on its last segment.
KindQualified(path) ==
    /\ Len(path) >= 5
    /\ path[1] = FixtureName
    /\ path[Len(path) - 1] = At

\* C18 as stated: every kind-qualified path written with the canonical
\* package name that resolves to an item is a fixed point:
\* discriminated_path(resolve_path(p)) = p.
C18_KindQualifiedFixedPoint ==
    ( /\ origin = "resolve_path" /\ IsSome(req) /\ IsSome(cur)
      /\ KindQualified(Unwrap(req))
      /\ disc.set )
    => disc.val = req

\* The canonical spelling of the export path of every item of the document.
CanonicalPaths ==
    { <<FixtureName, Sep>> \o Discriminated(Doc.paths[id].path, Doc.paths[id].kind) :
        id \in {i \in DOMAIN Doc.paths \cap DOMAIN Doc.index :
                  Doc.paths[i].crate_id = 0 /\ Len(Doc.paths[i].path) >= 2} }

\* C18 amended: a kind-qualified path written with the canonical package
\* name that spells an item's own export path (on either side of a name
\* collision) resolves, and discriminated_path of the result is that path;
\* a kind-qualified path through a re-export resolves to the item and is
\* mapped to the item's export path instead.
C18_ExportPathFixedPoint ==
    ( /\ origin = "resolve_path" /\ IsSome(req) /\ IsSome(working_set)
      /\ Unwrap(req) \in CanonicalPaths )
    => /\ IsSome(cur)
       /\ disc.set => disc.val = req

\* C18 witness: both sides of the module/function collision were resolved by
\* their canonical paths and gave those paths back.
C18_CollisionFixedPoint ==
    /\ origin = "resolve_path"
    /\ req = Some(<<FixtureName, Sep, "namespace_collisions", Sep, "fn", At, "both">>)
    /\ IsSome(cur) /\ disc.set /\ disc.val = req
    /\ IsSome(kept)
    /\ Unwrap(kept).req = <<FixtureName, Sep, "namespace_collisions", Sep, "mod", At, "both">>

\* Whether a finished call went through load_crate.
CalledLoadCrate(l) ==
    l.pc = "done" /\ l.via \in {"load_crate", "traverse", "external"}

SourceRank(b) == CASE b = "local" -> 1 [] b = "std" -> 2 [] b = "docsrs" -> 3

\* Whether a Source supplies a package: it looks it up and loads it.
Supplies(b, k) == k \in sources.has[b] /\ <<b, k>> \notin sources.broken

\* C20: the Sources are consulted workspace/local first, then standard
\* library, then registry cache, and the first that supplies the package
\* wins: a cached document comes from the first Source in that order that
\* supplies it (the workspace member, when a registry package has the same
\* name), a Source is asked to load only when no Source before it supplies
\* the package, and a failure is cached only when no Source supplies it.
C20_FirstSupplierWins ==
    \A k \in PkgNames :
        /\ documents[k].state = "loaded"
           => /\ Supplies(documents[k].doc.provenance, k)
              /\ \A o \in Backends :
                    Supplies(o, k) => SourceRank(documents[k].doc.provenance) <= SourceRank(o)
        /\ documents[k].state = "failed" => \A o \in Backends : ~Supplies(o, k)
        /\ \A o \in Backends :
              source_loads[<<o, k>>] > 0
              => \A e \in Backends : SourceRank(e) < SourceRank(o) => ~Supplies(e, k)

\* C20 witness: the workspace and the registry both supply "dep", and a
\* caller was handed the workspace's document; the registry was not asked.
C20_WorkspaceShadowsRegistry ==
    /\ Supplies("local", "dep") /\ Supplies("docsrs", "dep")
    /\ documents["dep"].state = "loaded"
    /\ documents["dep"].doc.provenance = "local"
    /\ source_loads[<<"docsrs", "dep">>] = 0
    /\ \E c \in LoaderIds :
          /\ CalledLoadCrate(loaders[c])
          /\ loaders[c].key = "dep"
          /\ loaders[c].result = Some(documents["dep"].doc)

(***************************************************************************)
(* The document as a value, identities in order, the cache over time.      *)
(***************************************************************************)

\* C21: a document is immutable once it is in the Navigator: what is cached
\* is the export with its reverse index already built, and no later
\* operation (resolve_path, further loads by it, get_path, child traversal,
\* discriminated_path) changes its items, path summaries or reverse index.
C21_ImmutableOnceInserted ==
    /\ [](IsSome(working_set) =>
            \E order \in HashOrders :
                Unwrap(working_set) = build_path_index(Export(Unwrap(working_set).root), order))
    /\ [][IsSome(working_set) => working_set' = working_set]_vars

\* C21 witness: with the document loaded, a path was resolved again, a child
\* was taken, its path was computed and resolved back.
C21_ReadersRan ==
    /\ IsSome(working_set)
    /\ Unwrap(working_set).path_to_id # <<>>
    /\ origin = "child_items"
    /\ IsSome(kept)
    /\ back.set /\ IsSome(back.val)

\* C22: the order of two package identities agrees with their equality: cmp
\* and partial_cmp give Equal exactly when the two are equal ignoring
\* '-'/'_', and the ordinary string order otherwise.
C22_OrderAgreesWithEquality ==
    name_ord.set =>
        LET same == CrateNameEq(name_a, name_b)
        IN /\ name_ord.val.cmp = "Equal" <=> same
           /\ name_ord.val.partial_cmp = Some("Equal") <=> same
           /\ ~same => /\ name_ord.val.cmp = StrCmp(name_a, name_b)
                       /\ name_ord.val.partial_cmp = Some(StrCmp(name_a, name_b))

\* C23: per package key the search-index cache only goes from no entry to a
\* built index or to a failure: a key never has two entries, and once it has
\* one, no step replaces it, turns an index into a failure or a failure into
\* an index, or removes it.
C23_CacheEntriesPermanent ==
    /\ [](\A n \in SearchNames : Cardinality(MapEntries(search_indexes, n)) <= 1)
    /\ [][\A n \in SearchNames :
             IsSome(MapGet(search_indexes, n))
             => MapGet(search_indexes', n) = MapGet(search_indexes, n)]_vars

\* C23 witness: two loads ran for one key; the index the first one built is
\* the entry, also after the second one offered its outcome.
C23_SecondLoadKeptFirstEntry ==
    /\ KeyAttempts(<<"a", "-", "b">>) = 2
    /\ MapGet(search_indexes, <<"a", "_", "b">>) = Some(Some(1))
    /\ \A ci \in TaskIds : tasks[ci[1]][ci[2]].pc # "load"

(***************************************************************************)
(* The early-stop display.                                                 *)
(***************************************************************************)

\* The sum of the first n scores of a list of scores.
RECURSIVE SumFirst(_, _)
SumFirst(scores, n) == IF n = 0 THEN 0 ELSE SumFirst(scores, n - 1) + scores[n]

\* Whether the result at 0-based position i passes the tests of the claim,
\* given the score shown before it and the cumulative score shown before it.
PassesAt(i, prev, cumulative) ==
    /\ i < cli_limit
    /\ 20 * Ranked[i + 1] >= Ranked[1]
    /\ 2 * Ranked[i + 1] >= prev
    /\ 10 * cumulative <= 3 * SumFirst(Ranked, Len(Ranked))

RECURSIVE PrevShown(_)
PrevShown(n) ==
    IF n = 0 THEN Ranked[1]
    ELSE IF visited[n].found THEN visited[n].score ELSE PrevShown(n - 1)

RECURSIVE CumulativeShown(_)
CumulativeShown(n) ==
    IF n = 0 THEN 0
    ELSE CumulativeShown(n - 1) + (IF visited[n].found THEN visited[n].score ELSE 0)

RECURSIVE ChainExists(_, _, _)
ChainExists(doc, h, segs) ==
    \/ segs = <<>>
    \/ \E i \in DOMAIN child_items(doc, h) :
          /\ NameOf(doc, child_items(doc, h)[i]) = Some(segs[1])
          /\ ChainExists(doc, child_items(doc, h)[i], Tail(segs))

\* C25: find_by_path returns a handle whenever some chain of child items
\* has the segments as its names, also when several children at one level
\* have the matching name, and returns the start item for no segments.
C25_FindByPathComplete ==
    fn_find.set =>
        LET start == DocRefNew(fn_doc.name, fn_find.val.start)
        IN /\ ChainExists(fn_doc, start, fn_find.val.segs)
                => IsSome(fn_find.val.result)
           /\ fn_find.val.segs = <<>> => fn_find.val.result = Some(start)

\* The local summaries with something after the package name, and those of
\* them that share a path.
LocalBelowRoot(doc) ==
    {id \in DOMAIN doc.paths :
        doc.paths[id].crate_id = 0 /\ Len(doc.paths[id].path) >= 2}
SharePath(doc) ==
    {p \in LocalBelowRoot(doc) \X LocalBelowRoot(doc) :
        p[1] # p[2] /\ doc.paths[p[1]].path = doc.paths[p[2]].path}

\* Items at one path have distinct kinds, and distinct kinds at one path
\* have distinct discriminators.
DistinctAtEachPath(doc) ==
    \A p \in SharePath(doc) :
        /\ doc.paths[p[1]].kind # doc.paths[p[2]].kind
        /\ kind_discriminator(doc.paths[p[1]].kind)
             # kind_discriminator(doc.paths[p[2]].kind)

\* "prefix::kind@name" for a local summary.
OwnKey(doc, id) == Discriminated(doc.paths[id].path, doc.paths[id].kind)

\* C26: for an export whose items at one path have distinct kinds with
\* distinct discriminators, build_path_index maps no two local items to one
\* kind-qualified key, every indexed item is found under its own
\* "prefix::kind@name" key, and the map is the same for every iteration
\* order of the summaries.
C26_QualifiedKeysUnique ==
    (fn_index.set /\ DistinctAtEachPath(fn_doc)) =>
        LET map == fn_index.val.path_to_id
        IN /\ \A a, b \in LocalBelowRoot(fn_doc) :
                 a # b => OwnKey(fn_doc, a) # OwnKey(fn_doc, b)
           /\ \A id \in LocalBelowRoot(fn_doc) :
                 /\ OwnKey(fn_doc, id) \in DOMAIN map
                 /\ map[OwnKey(fn_doc, id)] = id
           /\ \A order \in HashOrders :
                 build_path_index(fn_doc, order).path_to_id = map

\* The index of an export with two items of different kinds at one path has
\* been built, the summaries iterated from the last to the first.
C26_IndexedCollidingKinds ==
    /\ fn_index.set /\ DistinctAtEachPath(fn_doc)
    /\ fn_index.val.order = "desc"
    /\ SharePath(fn_doc) # {}
    /\ \E p \in SharePath(fn_doc) :
          fn_index.val.path_to_id[OwnKey(fn_doc, p[1])] = p[1]

\* Without that condition the map depends on the iteration order.
C26_OrderMattersOtherwise ==
    /\ fn_index.set /\ ~DistinctAtEachPath(fn_doc)
    /\ \E order \in HashOrders :
          build_path_index(fn_doc, order).path_to_id # fn_index.val.path_to_id

\* C27: every entry of the reverse index maps to a local item whose summary
\* path has a segment after the package name; the key is made of those
\* segments only, without the package name; the items of other packages
\* and the root contribute no entry.
C27_EntriesAreLocalBelowRoot ==
    fn_index.set =>
        LET map == fn_index.val.path_to_id
            ids == {map[k] : k \in DOMAIN map}
        IN /\ \A k \in DOMAIN map :
                 /\ map[k] \in DOMAIN fn_doc.paths
                 /\ fn_doc.paths[map[k]].crate_id = 0
                 /\ Len(fn_doc.paths[map[k]].path) >= 2
                 /\ k \in {Join(SubSeq(fn_doc.paths[map[k]].path, 2,
                                       Len(fn_doc.paths[map[k]].path))),
                            OwnKey(fn_doc, map[k])}
                 /\ \A i \in DOMAIN k : k[i] \notin {ExportName, FixtureName}
           /\ \A id \in DOMAIN fn_doc.paths :
                 (fn_doc.paths[id].crate_id # 0 \/ Len(fn_doc.paths[id].path) <= 1)
                    => id \notin ids

\* The index of an export with a root summary and a summary of another
\* package has been built and has entries.
C27_IndexedWithRootAndExternal ==
    /\ fn_index.set
    /\ DOMAIN fn_index.val.path_to_id # {}
    /\ \E id \in DOMAIN fn_doc.paths : fn_doc.paths[id].crate_id # 0
    /\ fn_doc.root \in DOMAIN fn_doc.paths
    /\ Len(fn_doc.paths[fn_doc.root].path) = 1

(***************************************************************************)
(* Search, asked twice.                                                    *)
(***************************************************************************)

\* C28: a call of search made after another one with the same package list
\* had returned returns the same outcome, the suggestion list of the error
\* included.
C28_SearchRepeatable ==
    \A c, d \in CallIds :
        (/\ calls[c].state = "done" /\ calls[d].state = "done"
         /\ c \in calls[d].after
         /\ calls[c].names = calls[d].names) =>
            calls[d].result = calls[c].result

(***************************************************************************)
(* The history of the interactive renderer.                                *)
(***************************************************************************)

\* C29: in the event loop of the interactive renderer, whenever the history
\* is not empty, history_index is a position of it, so that indexing the
\* current entry stays within bounds.
C29_HistoryIndexValid ==
    /\ history # <<>> => history_index < Len(history)
    /\ loop_pc # "panicked"

\* A click on the breadcrumb bar went past the end of the history while the
\* help screen was shown.
C29_StaleAreaUnderHelp ==
    loop_pc = "panicked" /\ show_help /\ history_index >= Len(history)

\* What a navigation to the entry is to do at the current position.
NavigatesTo(entry) ==
    IF history # <<>> /\ history[history_index + 1] = entry
    THEN history' = history /\ history_index' = history_index
    ELSE /\ history' = (IF history = <<>> THEN <<>>
                        ELSE SubSeq(history, 1, history_index + 1)) \o <<entry>>
         /\ history_index' = Len(history') - 1
         /\ history'[history_index' + 1] = entry

\* C30: a link click, a go-to that resolves and a search that succeeds, at
\* position i, discard the entries after i, append the new entry and make
\* it current, unless the new entry equals the current one, and then
\* nothing changes; back and forward move the position by one and leave
\* the entries alone, and do nothing at the first and at the last entry.
C30_HistoryNavigation ==
    [][/\ (/\ HandleClick /\ IsSome(clicked_position)
           /\ Unwrap(clicked_position) \in actions \cap TuiItems)
             => NavigatesTo(ItemEntry(Unwrap(clicked_position)))
       /\ \A x \in TuiItems, all \in BOOLEAN, err \in BOOLEAN :
             (/\ KeyEnter(Some(x), all, err)
              /\ ~show_help /\ input_mode = "GoTo")
                => NavigatesTo(ItemEntry(x))
       /\ \A r \in {None} \cup {Some(x) : x \in TuiItems}, all \in BOOLEAN :
             (/\ KeyEnter(r, all, FALSE)
              /\ ~show_help /\ input_mode = "Search")
                => NavigatesTo(SearchEntry("q",
                        IF all \/ history = <<>> THEN None
                        ELSE history[history_index + 1].crate_name))
       /\ (KeyLeft /\ ~show_help /\ input_mode = "Normal")
             => /\ history' = history
                /\ history_index' =
                     IF history_index = 0 THEN 0 ELSE history_index - 1
       /\ (KeyRight /\ ~show_help /\ input_mode = "Normal")
             => /\ history' = history
                /\ history_index' =
                     IF history = <<>> \/ history_index = Len(history) - 1
                     THEN history_index ELSE history_index + 1
      ]_vars

\* A navigation from the middle of the history has discarded the entries
\* after it.
C30_ForwardHistoryDiscarded ==
    /\ last_event.op = "pushed" /\ last_event.dropped > 0
    /\ history_index = Len(history) - 1

====
